---- MODULE Spec2Model ----
(***************************************************************************)
(* kiss-rpc: two engines of one process wired back to back.  Engine 1 is a *)
(* KissRpc, engine 2 a KissRpcWithAppData (src/index.ts).  Both draw their *)
(* request ids from the module-level requestIdCounter.  A transport moves  *)
(* the raw messages an engine hands to its toTransport callback into the   *)
(* peer's fromTransport, in any order.                                     *)
(***************************************************************************)
EXTENDS Integers, Sequences, FiniteSets, TLC

(* ------------------------------ bounds --------------------------------- *)
MaxCalls == 2
MaxNotifies == 1
MaxDispatchCalls == 1
MaxHandlers == 1
MaxGuards == 2
MaxBursts == 1
MaxCleans == 2
MaxSpecCleans == 1
MaxArrayLen == 5
MaxRaws == 2
MaxTime == 100
TimeStep == 50
TimeoutOpt == 150

(* ------------------------- program constants --------------------------- *)
TIMEOUT_CHECK_INTERVAL_MS == 100
DefaultRequestTimeout == 5000
\* A uint32 is kept as two 16-bit limbs <<hi, lo>>, value hi * Limb + lo.
Limb == 65536

Request == 0
Notification == 1
Response == 2
ErrorResponse == 3

PARSE_ERROR == [code |-> 1000, message |-> "Invalid JSON was received by the server. An error occurred on the server while parsing the JSON text."]
INVALID_REQUEST == [code |-> 1001, message |-> "Invalid Request. The JSON sent is not a valid Request object."]
METHOD_NOT_FOUND == [code |-> 1002, message |-> "Method not found. The method does not exist / is not available."]
INTERNAL_ERROR == [code |-> 1004, message |-> "Internal error. Internal JSON-RPC error."]
REQUEST_TIMEOUT == [code |-> 1005, message |-> "Request has timed-out"]
GUARD_ERROR == [code |-> 1006, message |-> "Guard error"]
APPLICATION_ERROR == [code |-> 1007, message |-> "Application error"]

(* ------------------------------ universe ------------------------------- *)
Engines == {1, 2}
Peer(e) == 3 - e
\* Engine 2 is the KissRpcWithAppData instance.
WithAppData(e) == e = 2

Methods == {"add", "log"}
ParamLists == {<<"p">>}
\* The parameter lists used where the handler's result is looked at.
DispatchParamLists == {<<"p">>, <<"q">>}
\* The context values a transport supplies with a delivery to engine 2.
AppDatas == {"ctxA"}
NoAppData == "none"
Undefined == "undefined"
Null == "null"
False == "false"
CleanReason == "shutdown"

\* What a registered handler function does when invoked.
HandlerFns == {"returns", "void", "throws", "async"}
\* What handler.fn.apply(null, args) returns, or what the promise it returned
\* is fulfilled with: "returns" and "async" give back their first argument,
\* "void" runs to its end without a return statement.
HandlerResult(fn, args) == IF fn = "void" \/ args = << >> THEN Undefined ELSE args[1]
\* The Error a handler or a guard throws.
HandlerError == [name |-> "Error", message |-> "bad"]
GuardFailure == [name |-> "Error", message |-> "unauthorized"]

Guard == 0
ParamGuard == 1
AppData == 2

\* The callbacks an application registers: "cb" hands the text to the
\* fromTransport of the peer engine, "cb2" writes it to another connection,
\* which the model keeps under Elsewhere.
Callbacks == {"cb", "cb2"}
Elsewhere == 0

NoTimer == -1
\* The id of a message that has none: the number -1.
MinusOne == <<-1, Limb - 1>>

Min(a, b) == IF a <= b THEN a ELSE b
SetMin(S) == CHOOSE x \in S : \A y \in S : x <= y

(* ------------------------------- state --------------------------------- *)
VARIABLES
    requestIdCounter,      \* module-level counter, <<hi, lo>>
    now,                   \* Date.now()
    requestTimeout,        \* per engine
    toTransport,           \* per engine: the callback slot, or "null"
    dispatcher,            \* per engine: method -> index into handlers, 0 when absent
    handlers,              \* the DispatcherHandler objects ever created
    pendingRequests,       \* per engine: the entries [id, call, timestamp], one per id
    timeoutCheckInterval,  \* per engine: NoTimer, or the time of the next tick
    promises,              \* results of asynchronous handlers not yet settled
    wire,                  \* per engine: raw messages on their way to its fromTransport
                           \* (and under Elsewhere: texts written to another connection)
    calls,                 \* every request() call and the state of its promise
    execLog,               \* the guards and handler the last handleMessage invoked
    decoded,               \* the last text given to parseMessage, and what came of it
    budget                 \* how often the bounded operations were used

vars == <<requestIdCounter, now, requestTimeout, toTransport, dispatcher, handlers,
          pendingRequests, timeoutCheckInterval, promises, wire, calls, execLog, decoded,
          budget>>

(* --------------------------- the message codec ------------------------- *)
\* (requestIdCounter + 1) | 0, the signed conversion: 2^32 - 2 reads as -2 and
\* is followed by -1.
GenerateRequestIdSigned(c) ==
    IF c = <<Limb - 1, Limb - 2>> THEN MinusOne
    ELSE IF c = MinusOne THEN <<0, 0>>
    ELSE IF c[2] + 1 < Limb THEN <<c[1], c[2] + 1>>
    ELSE <<c[1] + 1, 0>>

\* (requestIdCounter + 1) >>> 0
GenerateRequestId(c) ==
    IF c[2] + 1 < Limb THEN <<c[1], c[2] + 1>>
    ELSE IF c[1] + 1 < Limb THEN <<c[1] + 1, 0>>
    ELSE <<0, 0>>

\* n successive generateRequestId() calls, n = <<hi, lo>>.
AddU32(c, n) ==
    LET lo == c[2] + n[2]
        hi == c[1] + n[1] + (IF lo >= Limb THEN 1 ELSE 0)
    IN  <<hi % Limb, lo % Limb>>

CreateRequest(id, method, params) ==
    [type |-> Request, id |-> id, method |-> method, params |-> params]

CreateResponse(id, data) ==
    [type |-> Response, id |-> id, result |-> data]

CreateErrorResponse(id, errorCode, errorReason, errorMessage) ==
    [type |-> ErrorResponse, id |-> id,
     error |-> [code |-> errorCode, message |-> errorReason, errorMessage |-> errorMessage]]

CreateNotification(method, params) ==
    [type |-> Notification, method |-> method, params |-> params]

\* A transport that hands over the message object itself.
StringifyAsIs(message) == message

\* JSON.stringify followed by the peer's JSON.parse: inside an array undefined
\* becomes null; an object key whose value is undefined is left out, so that
\* reading it after the parse gives undefined again.
Stringify(message) ==
    IF message.type = Response /\ message.result = Undefined
    THEN [message EXCEPT !.result = Null]
    ELSE message

\* new KissRpcError(code, message, id = -1, errorMessage = '')
KissRpcError(code, message, id, errorMessage) ==
    [kind |-> "rejected", code |-> code, message |-> message, id |-> id,
     errorMessage |-> IF errorMessage = Undefined THEN "" ELSE errorMessage]

\* err.message in the place of err.toString()
ErrorMessageOnly(err) == err.message

\* Error.prototype.toString
ErrorToString(err) ==
    IF err.message = "" THEN err.name ELSE err.name \o ": " \o err.message

Pending == [kind |-> "pending"]
Resolved(value) == [kind |-> "resolved", value |-> value]

\* resolve / reject of the promise of call c: a settled promise stays as it is.
Settle(cs, c, outcome) ==
    IF cs[c].outcome.kind = "pending" THEN [cs EXCEPT ![c].outcome = outcome] ELSE cs

(* ---------------------- JSON values and parseMessage -------------------- *)
\* A JavaScript value: undefined, null, a number, a string, an array of values
\* or an object (a record of its own keys).
JUndefined == [t |-> "undefined"]
JNull == [t |-> "null"]
JNumber(n) == [t |-> "number", n |-> n]
JString(str) == [t |-> "string", s |-> str]
JArray(items) == [t |-> "array", items |-> items]
JObject(fields) == [t |-> "object", fields |-> fields]

\* typeof v
TypeOf(v) == IF v.t \in {"null", "array", "object"} THEN "object" ELSE v.t

\* items[i] of a JavaScript array, i counted from 0: undefined past its end.
At(items, i) == IF i + 1 <= Len(items) THEN items[i + 1] ELSE JUndefined

\* v.key for a value v that is neither null nor undefined.
Get(v, key) ==
    IF v.t = "object" /\ key \in DOMAIN v.fields THEN v.fields[key] ELSE JUndefined

\* A text: not JSON at all, or the JSON text of a value.
NotJson == [json |-> FALSE]
Text(v) == [json |-> TRUE, value |-> v]

\* What JSON.stringify writes for v: inside an array undefined is written as
\* null, a key of an object whose value is undefined is left out.
RECURSIVE JsonValue(_)
JsonValue(v) ==
    IF v.t = "array" THEN
        JArray([i \in DOMAIN v.items |->
                   IF v.items[i].t = "undefined" THEN JNull ELSE JsonValue(v.items[i])])
    ELSE IF v.t = "object" THEN
        JObject([k \in {j \in DOMAIN v.fields : v.fields[j].t # "undefined"} |->
                    JsonValue(v.fields[k])])
    ELSE v

\* A writer that also leaves out the keys whose value is the empty string.
JsonStringifyDropsEmpty(v) ==
    Text(JArray([i \in DOMAIN v.items |->
        IF v.items[i].t # "object" THEN JsonValue(v.items[i])
        ELSE JObject([k \in {j \in DOMAIN v.items[i].fields :
                                v.items[i].fields[j] \notin {JUndefined, JString("")}} |->
                         v.items[i].fields[k]])]))

JsonStringify(v) == Text(JsonValue(v))

\* isMessage(message): "true", "false", or "TypeError" when it reads a property
\* of null.
IsMessage(message) ==
    IF message.t # "array" THEN "false"
    ELSE LET m == message.items
         IN  IF Len(m) > 4 \/ Len(m) < 2 THEN "false"
             ELSE IF TypeOf(At(m, 0)) # "number" THEN "false"
             ELSE IF At(m, 0).n < 0 \/ At(m, 0).n > 3 THEN "false"
             ELSE IF At(m, 0).n = Request THEN
                 IF TypeOf(At(m, 1)) # "number" THEN "false"
                 ELSE IF TypeOf(At(m, 2)) # "string" THEN "false"
                 ELSE "true"
             ELSE IF At(m, 0).n = Response THEN
                 IF TypeOf(At(m, 1)) # "number" THEN "false" ELSE "true"
             ELSE IF At(m, 0).n = ErrorResponse THEN
                 IF TypeOf(At(m, 1)) # "number" THEN "false"
                 ELSE IF TypeOf(At(m, 2)) # "object" THEN "false"
                 ELSE IF At(m, 2).t = "null" THEN "TypeError"
                 ELSE IF TypeOf(Get(At(m, 2), "code")) # "number" THEN "false"
                 ELSE IF TypeOf(Get(At(m, 2), "message")) # "string" THEN "false"
                 ELSE "true"
             ELSE IF TypeOf(At(m, 1)) # "string" THEN "false"
             ELSE "true"

TypeError == [kind |-> "TypeError"]

\* parseMessage(raw): the message it returns, or the error it throws.
ParseMessage(raw) ==
    IF ~raw.json THEN
        [kind |-> "threw",
         error |-> KissRpcError(PARSE_ERROR.code, PARSE_ERROR.message, MinusOne, Undefined)]
    ELSE LET valid == IsMessage(raw.value)
         IN  IF valid = "TypeError" THEN [kind |-> "threw", error |-> TypeError]
             ELSE IF valid = "false" THEN
                 [kind |-> "threw",
                  error |-> KissRpcError(INVALID_REQUEST.code, INVALID_REQUEST.message,
                                         MinusOne, Undefined)]
             ELSE [kind |-> "message", message |-> raw.value]

\* A uint32 (or the number -1) as a plain number, and back.
Num(id) == IF id = MinusOne THEN -1 ELSE id[1] * Limb + id[2]
U32(n) == IF n = -1 THEN MinusOne ELSE <<n \div Limb, n % Limb>>

\* The strings of the model as JavaScript values, and back.
ToJs(x) == IF x = Undefined THEN JUndefined ELSE IF x = Null THEN JNull ELSE JString(x)
FromJs(v) == IF v.t = "undefined" THEN Undefined ELSE IF v.t = "null" THEN Null ELSE v.s

\* A message is a JavaScript array; the model names its positions.  Elements
\* is the array of a message, Named the message of a well-shaped array.
Elements(message) ==
    IF message.type = Request THEN
        JArray(<<JNumber(Request), JNumber(Num(message.id)), JString(message.method),
                 JArray([i \in DOMAIN message.params |-> ToJs(message.params[i])])>>)
    ELSE IF message.type = Notification THEN
        JArray(<<JNumber(Notification), JString(message.method),
                 JArray([i \in DOMAIN message.params |-> ToJs(message.params[i])])>>)
    ELSE IF message.type = Response THEN
        JArray(<<JNumber(Response), JNumber(Num(message.id)), ToJs(message.result)>>)
    ELSE
        JArray(<<JNumber(ErrorResponse), JNumber(Num(message.id)),
                 JObject([code |-> JNumber(message.error.code),
                          message |-> JString(message.error.message),
                          errorMessage |-> ToJs(message.error.errorMessage)])>>)

\* A params element that is no array is named by its type alone (paramsType),
\* with nothing in params.
Named(array) ==
    LET m == array.items
        ps == IF At(m, 0).n = Request THEN At(m, 3) ELSE At(m, 2)
    IN  IF At(m, 0).n = Request /\ ps.t = "array" THEN
            [type |-> Request, id |-> U32(At(m, 1).n), method |-> At(m, 2).s,
             params |-> [i \in DOMAIN ps.items |-> FromJs(ps.items[i])]]
        ELSE IF At(m, 0).n = Request THEN
            [type |-> Request, id |-> U32(At(m, 1).n), method |-> At(m, 2).s,
             params |-> << >>, paramsType |-> ps.t]
        ELSE IF At(m, 0).n = Notification /\ ps.t = "array" THEN
            [type |-> Notification, method |-> At(m, 1).s,
             params |-> [i \in DOMAIN ps.items |-> FromJs(ps.items[i])]]
        ELSE IF At(m, 0).n = Notification THEN
            [type |-> Notification, method |-> At(m, 1).s,
             params |-> << >>, paramsType |-> ps.t]
        ELSE IF At(m, 0).n = Response THEN
            [type |-> Response, id |-> U32(At(m, 1).n), result |-> FromJs(At(m, 2))]
        ELSE
            [type |-> ErrorResponse, id |-> U32(At(m, 1).n),
             error |-> [code |-> Get(At(m, 2), "code").n,
                        message |-> Get(At(m, 2), "message").s,
                        errorMessage |-> FromJs(Get(At(m, 2), "errorMessage"))]]

(* ------------------------------ Init ----------------------------------- *)
\* parseMessage has not been called.
NotDecoded == [eng |-> 0, at |-> 0, raw |-> [json |-> FALSE], result |-> [kind |-> "none"]]

ConstructorTimeout(opt) == IF opt = 0 THEN DefaultRequestTimeout ELSE opt

\* The module is loaded and the two engines are constructed.
Constructed ==
    /\ requestIdCounter = <<0, 0>>
    /\ now = 0
    /\ requestTimeout = [e \in Engines |-> ConstructorTimeout(TimeoutOpt)]
    /\ toTransport = [e \in Engines |-> "null"]
    /\ dispatcher = [e \in Engines |-> [m \in Methods |-> 0]]
    /\ handlers = << >>
    /\ pendingRequests = [e \in Engines |-> {}]
    /\ timeoutCheckInterval = [e \in Engines |-> NoTimer]
    /\ promises = {}
    /\ wire = [e \in Engines \cup {Elsewhere} |-> {}]
    /\ calls = << >>
    /\ execLog = << >>
    /\ budget = [notifies |-> 0, bursts |-> 0, cleans |-> 0, raws |-> 0]

Init == Constructed /\ decoded = NotDecoded

(* ------------------------- transport callback ------------------------- *)
\* Where the callback in the slot of engine e puts a text.
Destination(e) == IF toTransport[e] = "cb" THEN Peer(e) ELSE Elsewhere

\* A callToTransport that writes the context into the params of the message.
CallToTransportSerializesContext(w, e, message, appData, for) ==
    IF toTransport[e] = "null" THEN w
    ELSE [w EXCEPT ![Destination(e)] =
             @ \cup {[raw |-> IF message.type \in {Request, Notification}
                              THEN [Stringify(message) EXCEPT !.params = Append(@, appData)]
                              ELSE Stringify(message),
                      appData |-> appData, for |-> for]}]

\* A callToTransport that goes on calling the callback registered first.
CallToTransportKeepsFirstCallback(w, e, message, appData, for) ==
    IF toTransport[e] = "null" THEN w
    ELSE [w EXCEPT ![Peer(e)] =
             @ \cup {[raw |-> Stringify(message), appData |-> appData, for |-> for]}]

\* callToTransport: with no callback registered the message is dropped,
\* otherwise the callback in the slot is called.  An entry of the wire is the
\* raw text, the context value handed to the callback beside it, and the call
\* (or notify, negative) that caused the message.
CallToTransport(w, e, message, appData, for) ==
    IF toTransport[e] = "null" THEN w
    ELSE [w EXCEPT ![Destination(e)] =
             @ \cup {[raw |-> Stringify(message), appData |-> appData, for |-> for]}]

\* registerToTransportCallback(cb): the slot takes cb, whatever it held.
RegisterToTransportCallback(e, cb) ==
    /\ toTransport' = [toTransport EXCEPT ![e] = cb]
    /\ UNCHANGED <<requestIdCounter, now, requestTimeout, dispatcher, handlers,
                   pendingRequests, timeoutCheckInterval, promises, wire, calls,
                   execLog, budget, decoded>>

(* ------------------------------ dispatcher ----------------------------- *)
\* A registry that keeps the entry a method already has.
RegisterHandlerKeepsFirst(e, method, fn) ==
    /\ handlers' = Append(handlers, [eng |-> e, method |-> method, fn |-> fn, guards |-> << >>])
    /\ dispatcher' = [dispatcher EXCEPT ![e][method] =
                         IF @ = 0 THEN Len(handlers) + 1 ELSE @]
    /\ UNCHANGED <<requestIdCounter, now, requestTimeout, toTransport, pendingRequests,
                   timeoutCheckInterval, promises, wire, calls, execLog, budget, decoded>>

\* registerHandler: a new DispatcherHandler object; dispatcher.set puts it in
\* the place of whatever the method had.
RegisterHandler(e, method, fn) ==
    /\ handlers' = Append(handlers, [eng |-> e, method |-> method, fn |-> fn, guards |-> << >>])
    /\ dispatcher' = [dispatcher EXCEPT ![e][method] = Len(handlers) + 1]
    /\ UNCHANGED <<requestIdCounter, now, requestTimeout, toTransport, pendingRequests,
                   timeoutCheckInterval, promises, wire, calls, execLog, budget, decoded>>

\* addGuard / addParamsGuard / addAppDataGuard on the handle h; a KissRpc handle
\* has addParamsGuard only.  The guard function pushed either throws (fails)
\* or returns the value returns.
AddGuardFn(h, type, fails, returns) ==
    /\ h \in DOMAIN handlers
    /\ Len(handlers[h].guards) < MaxGuards
    /\ WithAppData(handlers[h].eng) \/ type = ParamGuard
    /\ handlers' = [handlers EXCEPT ![h].guards =
                       Append(@, [type |-> type, fails |-> fails, returns |-> returns])]
    /\ UNCHANGED <<requestIdCounter, now, requestTimeout, toTransport, dispatcher,
                   pendingRequests, timeoutCheckInterval, promises, wire, calls,
                   execLog, budget, decoded>>

\* A guard written as the type of the three methods has it, (...) => void:
\* it throws or returns nothing.
AddGuard(h, type, fails) == AddGuardFn(h, type, fails, Undefined)

(* --------------------------- timeout checker --------------------------- *)
\* startTimeoutChecker: setInterval fires first one interval from now.
\* startTimeoutChecker without its first line: setInterval is called even
\* when an interval is running.
StartTimeoutCheckerUnguarded(timer) == now + TIMEOUT_CHECK_INTERVAL_MS

StartTimeoutChecker(timer) ==
    IF timer # NoTimer THEN timer ELSE now + TIMEOUT_CHECK_INTERVAL_MS

StopTimeoutChecker(timer) == NoTimer

\* reject(err) of every call in cs whose entry is in entries.
RejectAll(cs, entries, err) ==
    [c \in DOMAIN cs |->
        IF (\E p \in entries : p.call = c) /\ cs[c].outcome.kind = "pending"
        THEN [cs[c] EXCEPT !.outcome = err] ELSE cs[c]]

\* An interval callback that stops at the first entry that is due: one tick
\* evicts one entry.
SweepTickEvictsOne(e) ==
    /\ timeoutCheckInterval[e] # NoTimer
    /\ timeoutCheckInterval[e] = now
    /\ LET due == {p \in pendingRequests[e] : now - p.timestamp >= requestTimeout[e]}
           timedOutRequests ==
               IF due = {} THEN {}
               ELSE {CHOOSE p \in due : \A q \in due : p.call <= q.call}
           left == pendingRequests[e] \ timedOutRequests
       IN  /\ pendingRequests' = [pendingRequests EXCEPT ![e] = left]
           /\ calls' = RejectAll(calls, timedOutRequests,
                           KissRpcError(REQUEST_TIMEOUT.code, REQUEST_TIMEOUT.message,
                                        MinusOne, Undefined))
           /\ timeoutCheckInterval' = [timeoutCheckInterval EXCEPT ![e] =
                  IF left = {} THEN StopTimeoutChecker(@)
                  ELSE now + TIMEOUT_CHECK_INTERVAL_MS]
    /\ UNCHANGED <<requestIdCounter, now, requestTimeout, toTransport, dispatcher,
                   handlers, promises, wire, execLog, budget, decoded>>

\* The interval callback without its last statement: it never stops itself.
SweepTickNeverStops(e) ==
    /\ timeoutCheckInterval[e] # NoTimer
    /\ timeoutCheckInterval[e] = now
    /\ LET timedOutRequests ==
               {p \in pendingRequests[e] : now - p.timestamp >= requestTimeout[e]}
           left == pendingRequests[e] \ timedOutRequests
       IN  /\ pendingRequests' = [pendingRequests EXCEPT ![e] = left]
           /\ calls' = RejectAll(calls, timedOutRequests,
                           KissRpcError(REQUEST_TIMEOUT.code, REQUEST_TIMEOUT.message,
                                        MinusOne, Undefined))
           /\ timeoutCheckInterval' = [timeoutCheckInterval EXCEPT ![e] =
                  now + TIMEOUT_CHECK_INTERVAL_MS]
    /\ UNCHANGED <<requestIdCounter, now, requestTimeout, toTransport, dispatcher,
                   handlers, promises, wire, execLog, budget, decoded>>

\* The interval callback of startTimeoutChecker, run when the timer is due.
SweepTick(e) ==
    /\ timeoutCheckInterval[e] # NoTimer
    /\ timeoutCheckInterval[e] = now
    /\ LET timedOutRequests ==
               {p \in pendingRequests[e] : now - p.timestamp >= requestTimeout[e]}
           left == pendingRequests[e] \ timedOutRequests
       IN  /\ pendingRequests' = [pendingRequests EXCEPT ![e] = left]
           /\ calls' = RejectAll(calls, timedOutRequests,
                           KissRpcError(REQUEST_TIMEOUT.code, REQUEST_TIMEOUT.message,
                                        MinusOne, Undefined))
           /\ timeoutCheckInterval' = [timeoutCheckInterval EXCEPT ![e] =
                  IF left = {} THEN StopTimeoutChecker(@)
                  ELSE now + TIMEOUT_CHECK_INTERVAL_MS]
    /\ UNCHANGED <<requestIdCounter, now, requestTimeout, toTransport, dispatcher,
                   handlers, promises, wire, execLog, budget, decoded>>

\* Time passes, up to the next due tick: the interval callback runs on time.
AdvanceTime ==
    /\ \A e \in Engines : timeoutCheckInterval[e] # now
    /\ now < MaxTime \/ \E e \in Engines : timeoutCheckInterval[e] # NoTimer
    /\ LET due == {timeoutCheckInterval[e] : e \in Engines} \ {NoTimer}
       IN  now' = SetMin(due \cup {now + TimeStep})
    /\ UNCHANGED <<requestIdCounter, requestTimeout, toTransport, dispatcher, handlers,
                   pendingRequests, timeoutCheckInterval, promises, wire, calls,
                   execLog, budget, decoded>>

(* ------------------------- request and notify -------------------------- *)
\* pendingRequests.set(id, entry): an entry already stored under id is replaced.
MapSet(table, entry) == {p \in table : p.id # entry.id} \cup {entry}

\* request(method, params[, appData])
RequestCall(e, method, params, appData) ==
    /\ Len(calls) < MaxCalls
    /\ LET id == GenerateRequestId(requestIdCounter)
           requestMessage == CreateRequest(id, method, params)
           call == Len(calls) + 1
           table == MapSet(pendingRequests[e], [id |-> id, call |-> call, timestamp |-> now])
       IN  /\ requestIdCounter' = id
           /\ calls' = Append(calls, [eng |-> e, id |-> id, params |-> params,
                                      timestamp |-> now, outcome |-> Pending])
           /\ pendingRequests' = [pendingRequests EXCEPT ![e] = table]
           /\ timeoutCheckInterval' = [timeoutCheckInterval EXCEPT ![e] =
                  IF Cardinality(table) = 1 THEN StartTimeoutChecker(@) ELSE @]
           /\ wire' = CallToTransport(wire, e, requestMessage, appData, call)
    /\ UNCHANGED <<now, requestTimeout, toTransport, dispatcher, handlers, promises,
                   execLog, budget, decoded>>

\* A notify that builds its message with createRequest: it draws an id.
NotifyDrawsId(e, method, params, appData) ==
    /\ budget.notifies < MaxNotifies
    /\ budget' = [budget EXCEPT !.notifies = @ + 1]
    /\ requestIdCounter' = GenerateRequestId(requestIdCounter)
    /\ wire' = CallToTransport(wire, e, CreateNotification(method, params), appData,
                               0 - (budget.notifies + 1))
    /\ UNCHANGED <<now, requestTimeout, toTransport, dispatcher,
                   handlers, pendingRequests, timeoutCheckInterval, promises, calls,
                   execLog, decoded>>

\* notify(method, params[, appData])
Notify(e, method, params, appData) ==
    /\ budget.notifies < MaxNotifies
    /\ budget' = [budget EXCEPT !.notifies = @ + 1]
    /\ wire' = CallToTransport(wire, e, CreateNotification(method, params), appData,
                               0 - (budget.notifies + 1))
    /\ UNCHANGED <<requestIdCounter, now, requestTimeout, toTransport, dispatcher,
                   handlers, pendingRequests, timeoutCheckInterval, promises, calls,
                   execLog, decoded>>

\* The exported createRequest (and request() of further engines of the process)
\* called n times by other code: each call draws an id from the shared counter.
CreateRequestElsewhere(n) ==
    /\ budget.bursts < MaxBursts
    /\ budget' = [budget EXCEPT !.bursts = @ + 1]
    /\ requestIdCounter' = AddU32(requestIdCounter, n)
    /\ UNCHANGED <<now, requestTimeout, toTransport, dispatcher, handlers,
                   pendingRequests, timeoutCheckInterval, promises, wire, calls, execLog, decoded>>

\* 2^32 - 1 calls: the next id drawn is the last one drawn before them.
Bursts == {<<Limb - 1, Limb - 1>>}

(* ------------------------------- clean --------------------------------- *)
\* resetDispatcher: the guards of every registered handler are emptied.
ResetDispatcher(hs, e) ==
    [h \in DOMAIN hs |->
        IF \E m \in Methods : dispatcher[e][m] = h THEN [hs[h] EXCEPT !.guards = << >>]
        ELSE hs[h]]

\* clean without its last statement: the transport callback stays.
CleanKeepsTransport(e, reason) ==
    /\ budget.cleans < MaxCleans
    /\ budget' = [budget EXCEPT !.cleans = @ + 1]
    /\ calls' = RejectAll(calls, pendingRequests[e],
                    KissRpcError(INTERNAL_ERROR.code, INTERNAL_ERROR.message, MinusOne, reason))
    /\ pendingRequests' = [pendingRequests EXCEPT ![e] = {}]
    /\ timeoutCheckInterval' = [timeoutCheckInterval EXCEPT ![e] = StopTimeoutChecker(@)]
    /\ handlers' = ResetDispatcher(handlers, e)
    /\ dispatcher' = [dispatcher EXCEPT ![e] = [m \in Methods |-> 0]]
    /\ UNCHANGED <<requestIdCounter, now, requestTimeout, toTransport, promises, wire,
                   execLog, decoded>>

\* clean that also tells the peer: an ErrorResponse goes to the transport.
CleanTellsPeer(e, reason) ==
    /\ budget.cleans < MaxCleans
    /\ budget' = [budget EXCEPT !.cleans = @ + 1]
    /\ calls' = RejectAll(calls, pendingRequests[e],
                    KissRpcError(INTERNAL_ERROR.code, INTERNAL_ERROR.message, MinusOne, reason))
    /\ pendingRequests' = [pendingRequests EXCEPT ![e] = {}]
    /\ timeoutCheckInterval' = [timeoutCheckInterval EXCEPT ![e] = StopTimeoutChecker(@)]
    /\ handlers' = ResetDispatcher(handlers, e)
    /\ dispatcher' = [dispatcher EXCEPT ![e] = [m \in Methods |-> 0]]
    /\ toTransport' = [toTransport EXCEPT ![e] = "null"]
    /\ wire' = CallToTransport(wire, e,
                   CreateErrorResponse(MinusOne, INTERNAL_ERROR.code, INTERNAL_ERROR.message,
                                       reason), NoAppData, 0)
    /\ UNCHANGED <<requestIdCounter, now, requestTimeout, promises, execLog, decoded>>

Clean(e, reason) ==
    /\ budget.cleans < MaxCleans
    /\ budget' = [budget EXCEPT !.cleans = @ + 1]
    /\ calls' = RejectAll(calls, pendingRequests[e],
                    KissRpcError(INTERNAL_ERROR.code, INTERNAL_ERROR.message, MinusOne, reason))
    /\ pendingRequests' = [pendingRequests EXCEPT ![e] = {}]
    /\ timeoutCheckInterval' = [timeoutCheckInterval EXCEPT ![e] = StopTimeoutChecker(@)]
    /\ handlers' = ResetDispatcher(handlers, e)
    /\ dispatcher' = [dispatcher EXCEPT ![e] = [m \in Methods |-> 0]]
    /\ toTransport' = [toTransport EXCEPT ![e] = "null"]
    /\ UNCHANGED <<requestIdCounter, now, requestTimeout, promises, wire, execLog, decoded>>

(* ---------------------------- handleMessage --------------------------- *)
\* What one handleMessage call does: the messages it passes to callToTransport,
\* the pending table and the promises of the calls afterwards, the handler
\* promises it waits for, and the user functions it invoked, in order
\* (fn: the guard's position, 0 for the handler; args: the arguments passed).
Outcome(e) ==
    [out |-> << >>, pending |-> pendingRequests[e], calls |-> calls,
     promises |-> promises, exec |-> << >>]

\* The guard loop with the try / catch inside it: a failure does not stop it.
RECURSIVE RunGuardsPastFailure(_, _, _, _)
RunGuardsPastFailure(guards, i, params, log) ==
    IF i > Len(guards) THEN [log |-> log, threw |-> \E k \in DOMAIN guards : guards[k].fails]
    ELSE RunGuardsPastFailure(guards, i + 1, params, Append(log, [fn |-> i, args |-> params]))

\* KissRpc: for (i = 0; i < guardsLength; i++) handler.guards[i].apply(null, params)
RECURSIVE RunGuards(_, _, _, _)
RunGuards(guards, i, params, log) ==
    IF i > Len(guards) THEN [log |-> log, threw |-> FALSE]
    ELSE LET ran == Append(log, [fn |-> i, args |-> params])
         IN  IF guards[i].fails THEN [log |-> ran, threw |-> TRUE]
             ELSE RunGuards(guards, i + 1, params, ran)

\* KissRpcWithAppData: the switch on guard.type chooses the arguments.
RECURSIVE RunGuardsWithAppData(_, _, _, _, _)
RunGuardsWithAppData(guards, i, params, appData, log) ==
    IF i > Len(guards) THEN [log |-> log, threw |-> FALSE]
    ELSE LET args == IF guards[i].type = Guard THEN Append(params, appData)
                     ELSE IF guards[i].type = ParamGuard THEN params
                     ELSE <<appData>>
             ran == Append(log, [fn |-> i, args |-> args])
         IN  IF guards[i].fails THEN [log |-> ran, threw |-> TRUE]
             ELSE RunGuardsWithAppData(guards, i + 1, params, appData, ran)

\* The reply branch without its else: an ErrorResponse resolves the call.
HandleReplyResolvesErrors(e, message, messageId) ==
    LET found == {p \in pendingRequests[e] : p.id = messageId}
    IN  IF found = {} THEN Outcome(e)
        ELSE LET pendingRequest == CHOOSE p \in found : TRUE
             IN  [Outcome(e) EXCEPT
                     !.pending = pendingRequests[e] \ {pendingRequest},
                     !.calls = Settle(calls, pendingRequest.call,
                                 Resolved(IF message.type = Response THEN message.result
                                          ELSE message.error.message))]

\* The reply branch with an else that reports an id nobody waits for.
HandleReplyAnswersUnmatched(e, message, messageId) ==
    LET found == {p \in pendingRequests[e] : p.id = messageId}
    IN  IF found = {} THEN
            [Outcome(e) EXCEPT !.out = <<CreateErrorResponse(messageId,
                INVALID_REQUEST.code, INVALID_REQUEST.message, Undefined)>>]
        ELSE LET pendingRequest == CHOOSE p \in found : TRUE
                 settled ==
                     IF message.type = Response THEN Resolved(message.result)
                     ELSE KissRpcError(message.error.code, message.error.message,
                                       messageId, message.error.errorMessage)
             IN  [Outcome(e) EXCEPT
                     !.pending = pendingRequests[e] \ {pendingRequest},
                     !.calls = Settle(calls, pendingRequest.call, settled)]

\* case Response / ErrorResponse, the same in both classes: the reply branch,
\* on the table and the calls as base has them.
ReplyOutcome(base, message, messageId) ==
    LET found == {p \in base.pending : p.id = messageId}
    IN  IF found = {} THEN base
        ELSE LET pendingRequest == CHOOSE p \in found : TRUE
                 settled ==
                     IF message.type = Response THEN Resolved(message.result)
                     ELSE KissRpcError(message.error.code, message.error.message,
                                       messageId, message.error.errorMessage)
             IN  [base EXCEPT
                     !.pending = base.pending \ {pendingRequest},
                     !.calls = Settle(base.calls, pendingRequest.call, settled)]

\* A reply branch that acknowledges every reply with a Response.
HandleReplyAcknowledges(e, message, messageId) ==
    [ReplyOutcome(Outcome(e), message, messageId) EXCEPT
        !.out = <<CreateResponse(messageId, Undefined)>>]

\* The reply branch on the table and the calls of engine e as they stand.
HandleReply(e, message, messageId) == ReplyOutcome(Outcome(e), message, messageId)

\* if (!handler) return this.callToTransport(createErrorResponse(messageId, ...)),
\* the same in both classes.
MethodNotFoundSilentForNotifications(e, messageId) ==
    IF messageId = MinusOne THEN Outcome(e)
    ELSE [Outcome(e) EXCEPT !.out = <<CreateErrorResponse(messageId,
             METHOD_NOT_FOUND.code, METHOD_NOT_FOUND.message, Undefined)>>]

MethodNotFound(e, messageId) ==
    [Outcome(e) EXCEPT !.out = <<CreateErrorResponse(messageId,
        METHOD_NOT_FOUND.code, METHOD_NOT_FOUND.message, Undefined)>>]

\* The handler's try block without its "if (isNotif) return".
ExecuteHandlerRepliesToNotifications(e, fn, args, messageId, isNotif, appData, for, log) ==
    LET ran == Append(log, [fn |-> 0, args |-> args])
        base == [Outcome(e) EXCEPT !.exec = ran]
    IN  IF fn = "throws" THEN
            [base EXCEPT !.out = <<CreateErrorResponse(messageId,
                APPLICATION_ERROR.code, APPLICATION_ERROR.message, HandlerError.message)>>]
        ELSE IF fn = "async" THEN
            [base EXCEPT !.promises = promises \cup
                {[eng |-> e, messageId |-> messageId, appData |-> appData, for |-> for,
                  value |-> HandlerResult(fn, args)]}]
        ELSE [base EXCEPT !.out = <<CreateResponse(messageId, HandlerResult(fn, args))>>]

\* The handler's catch block with err.toString() in the place of err.message.
ExecuteHandlerStringifiesError(e, fn, args, messageId, isNotif, appData, for, log) ==
    LET ran == Append(log, [fn |-> 0, args |-> args])
        base == [Outcome(e) EXCEPT !.exec = ran]
    IN  IF fn = "throws" THEN
            IF isNotif THEN base
            ELSE [base EXCEPT !.out = <<CreateErrorResponse(messageId,
                      APPLICATION_ERROR.code, APPLICATION_ERROR.message,
                      ErrorToString(HandlerError))>>]
        ELSE IF isNotif THEN base
        ELSE IF fn = "async" THEN
            [base EXCEPT !.promises = promises \cup
                {[eng |-> e, messageId |-> messageId, appData |-> appData, for |-> for,
                  value |-> HandlerResult(fn, args)]}]
        ELSE [base EXCEPT !.out = <<CreateResponse(messageId, HandlerResult(fn, args))>>]

\* The try block around handler.fn.apply(null, args), the same in both classes.
ExecuteHandler(e, fn, args, messageId, isNotif, appData, for, log) ==
    LET ran == Append(log, [fn |-> 0, args |-> args])
        base == [Outcome(e) EXCEPT !.exec = ran]
    IN  IF fn = "throws" THEN
            IF isNotif THEN base
            ELSE [base EXCEPT !.out = <<CreateErrorResponse(messageId,
                      APPLICATION_ERROR.code, APPLICATION_ERROR.message,
                      HandlerError.message)>>]
        ELSE IF isNotif THEN base
        ELSE IF fn = "async" THEN
            [base EXCEPT !.promises = promises \cup
                {[eng |-> e, messageId |-> messageId, appData |-> appData, for |-> for,
                  value |-> HandlerResult(fn, args)]}]
        ELSE [base EXCEPT !.out = <<CreateResponse(messageId, HandlerResult(fn, args))>>]

\* typeof of the params element of a Request or Notification, "array" for an
\* array.  Function.prototype.apply takes an array, undefined or null (no
\* arguments) and throws a TypeError for a number.
ParamsType(message) ==
    IF "paramsType" \in DOMAIN message THEN message.paramsType ELSE "array"
ApplyError ==
    [name |-> "TypeError", message |-> "CreateListFromArrayLike called on non-object"]

\* KissRpc.handleMessage
HandleMessage(e, message, for) ==
    LET messageType == message.type
        messageId == IF messageType \in {Request, Response, ErrorResponse}
                     THEN message.id ELSE MinusOne
        isNotif == messageType = Notification
    IN  IF messageType \in {Request, Notification} THEN
            LET handler == dispatcher[e][message.method]
            IN  IF handler = 0 THEN MethodNotFound(e, messageId)
                ELSE IF ParamsType(message) = "number" THEN
                    \* guards[0].apply(null, params), or with no guards
                    \* handler.fn.apply(null, params), throws before it calls.
                    IF isNotif THEN Outcome(e)
                    ELSE IF handlers[handler].guards # << >> THEN
                        [Outcome(e) EXCEPT !.out = <<CreateErrorResponse(messageId,
                            GUARD_ERROR.code, GUARD_ERROR.message,
                            ErrorToString(ApplyError))>>]
                    ELSE
                        [Outcome(e) EXCEPT !.out = <<CreateErrorResponse(messageId,
                            APPLICATION_ERROR.code, APPLICATION_ERROR.message,
                            ApplyError.message)>>]
                ELSE
                    LET params == message.params
                        g == RunGuards(handlers[handler].guards, 1, params, << >>)
                    IN  IF g.threw THEN
                            IF isNotif THEN [Outcome(e) EXCEPT !.exec = g.log]
                            ELSE [Outcome(e) EXCEPT
                                    !.exec = g.log,
                                    !.out = <<CreateErrorResponse(messageId,
                                        GUARD_ERROR.code, GUARD_ERROR.message,
                                        ErrorToString(GuardFailure))>>]
                        ELSE ExecuteHandler(e, handlers[handler].fn, params, messageId,
                                            isNotif, NoAppData, for, g.log)
        ELSE HandleReply(e, message, messageId)

\* KissRpcWithAppData.handleMessage
HandleMessageWithAppData(e, message, appData, for) ==
    LET messageType == message.type
        messageId == IF messageType \in {Request, Response, ErrorResponse}
                     THEN message.id ELSE MinusOne
        isNotif == messageType = Notification
    IN  IF messageType \in {Request, Notification} THEN
            LET handler == dispatcher[e][message.method]
            IN  IF handler = 0 THEN MethodNotFound(e, messageId)
                ELSE IF \/ ParamsType(message) = "number"
                        \/ isNotif /\ ParamsType(message) \in {"undefined", "null"} THEN
                    \* params.length of undefined or null, or new Array(NaN) for
                    \* a number, throws outside the try blocks: the error leaves
                    \* handleMessage.
                    Outcome(e)
                ELSE
                    LET params == message.params
                        paramsWithAppData == Append(params, appData)
                        g == RunGuardsWithAppData(handlers[handler].guards, 1, params,
                                                  appData, << >>)
                    IN  IF g.threw THEN
                            IF isNotif THEN [Outcome(e) EXCEPT !.exec = g.log]
                            ELSE [Outcome(e) EXCEPT
                                    !.exec = g.log,
                                    !.out = <<CreateErrorResponse(messageId,
                                        GUARD_ERROR.code, GUARD_ERROR.message,
                                        ErrorToString(GuardFailure))>>]
                        ELSE ExecuteHandler(e, handlers[handler].fn, paramsWithAppData,
                                            messageId, isNotif, appData, for, g.log)
        ELSE HandleReply(e, message, messageId)

\* fromTransport(rawMessage[, appData]) for a raw message an engine produced:
\* it parses, and handleMessage runs to its end before anything else happens.
FromTransport(e, entry, appData) ==
    /\ entry \in wire[e]
    /\ LET r == IF WithAppData(e)
                THEN HandleMessageWithAppData(e, entry.raw, appData, entry.for)
                ELSE HandleMessage(e, entry.raw, entry.for)
           taken == [wire EXCEPT ![e] = @ \ {entry}]
       IN  /\ wire' = IF r.out = << >> THEN taken
                      ELSE CallToTransport(taken, e, r.out[1], appData, entry.for)
           /\ pendingRequests' = [pendingRequests EXCEPT ![e] = r.pending]
           /\ calls' = r.calls
           /\ promises' = r.promises
           /\ execLog' = r.exec
    /\ UNCHANGED <<requestIdCounter, now, requestTimeout, toTransport, dispatcher,
                   handlers, timeoutCheckInterval, budget, decoded>>

\* The then callback without the catch chained to it: a rejection is lost.
PromiseSettlesWithoutCatch(p, fulfilled) ==
    /\ p \in promises
    /\ promises' = promises \ {p}
    /\ wire' = IF fulfilled
               THEN CallToTransport(wire, p.eng, CreateResponse(p.messageId, p.value),
                                    p.appData, p.for)
               ELSE wire
    /\ UNCHANGED <<requestIdCounter, now, requestTimeout, toTransport, dispatcher,
                   handlers, pendingRequests, timeoutCheckInterval, calls, execLog, budget,
                   decoded>>

\* then / catch callbacks that call callToTransport without the context.
PromiseSettlesWithoutContext(p, fulfilled) ==
    /\ p \in promises
    /\ promises' = promises \ {p}
    /\ wire' = CallToTransport(wire, p.eng,
                   IF fulfilled THEN CreateResponse(p.messageId, p.value)
                   ELSE CreateErrorResponse(p.messageId, APPLICATION_ERROR.code,
                            APPLICATION_ERROR.message, HandlerError.message),
                   Undefined, p.for)
    /\ UNCHANGED <<requestIdCounter, now, requestTimeout, toTransport, dispatcher,
                   handlers, pendingRequests, timeoutCheckInterval, calls, execLog, budget, decoded>>

\* then / catch callbacks that kept the transport callback of the time the
\* handler was invoked, and call it whatever the slot holds now.
PromiseSettlesToCapturedCallback(p, fulfilled) ==
    /\ p \in promises
    /\ promises' = promises \ {p}
    /\ wire' = [wire EXCEPT ![Peer(p.eng)] = @ \cup
                   {[raw |-> Stringify(IF fulfilled THEN CreateResponse(p.messageId, p.value)
                                       ELSE CreateErrorResponse(p.messageId,
                                                APPLICATION_ERROR.code,
                                                APPLICATION_ERROR.message,
                                                HandlerError.message)),
                     appData |-> p.appData, for |-> p.for]}]
    /\ UNCHANGED <<requestIdCounter, now, requestTimeout, toTransport, dispatcher,
                   handlers, pendingRequests, timeoutCheckInterval, calls, execLog, budget,
                   decoded>>

\* The promise an asynchronous handler returned settles: the then / catch
\* callbacks attached by handleMessage run.
PromiseSettles(p, fulfilled) ==
    /\ p \in promises
    /\ promises' = promises \ {p}
    /\ wire' = CallToTransport(wire, p.eng,
                   IF fulfilled THEN CreateResponse(p.messageId, p.value)
                   ELSE CreateErrorResponse(p.messageId, APPLICATION_ERROR.code,
                            APPLICATION_ERROR.message, HandlerError.message),
                   p.appData, p.for)
    /\ UNCHANGED <<requestIdCounter, now, requestTimeout, toTransport, dispatcher,
                   handlers, pendingRequests, timeoutCheckInterval, calls, execLog, budget, decoded>>

(* ------------------------ texts from elsewhere ------------------------- *)
\* KissRpc.parse(raw), the exported parseMessage, called on the text at hand.
ParseCall ==
    /\ decoded.result.kind = "none"
    /\ decoded' = [decoded EXCEPT !.result = ParseMessage(decoded.raw)]
    /\ UNCHANGED <<requestIdCounter, now, requestTimeout, toTransport, dispatcher,
                   handlers, pendingRequests, timeoutCheckInterval, promises, wire, calls,
                   execLog, budget>>

\* fromTransport(rawMessage[, appData]) for a text no engine of the model
\* produced.  A KissRpcError thrown by parseMessage is answered with id -1,
\* anything else thrown is swallowed by the catch block.
FromTransportRaw(e, raw, appData) ==
    LET parsed == ParseMessage(raw)
        for == 100 + budget.raws
        r == IF parsed.kind # "message" THEN Outcome(e)
             ELSE IF WithAppData(e)
             THEN HandleMessageWithAppData(e, Named(parsed.message), appData, for)
             ELSE HandleMessage(e, Named(parsed.message), for)
        out == IF parsed.kind = "message" THEN r.out
               ELSE IF parsed.error.kind = "rejected"
               THEN <<CreateErrorResponse(MinusOne, parsed.error.code, parsed.error.message,
                                          parsed.error.errorMessage)>>
               ELSE << >>
    IN  /\ budget.raws < MaxRaws
        /\ budget' = [budget EXCEPT !.raws = @ + 1]
        /\ decoded' = [eng |-> e, at |-> now, raw |-> raw, result |-> parsed]
        /\ wire' = IF out = << >> THEN wire
                   ELSE CallToTransport(wire, e, out[1], appData, for)
        /\ pendingRequests' = [pendingRequests EXCEPT ![e] = r.pending]
        /\ calls' = r.calls
        /\ promises' = r.promises
        /\ execLog' = r.exec
        /\ UNCHANGED <<requestIdCounter, now, requestTimeout, toTransport, dispatcher,
                       handlers, timeoutCheckInterval>>

(* ---------------------------- specification ---------------------------- *)
\* The context values of a call made on, or a delivery made to, engine e.
Contexts(e) == IF WithAppData(e) THEN AppDatas ELSE {NoAppData}

\* The correlation machine: requests, replies in any order, the sweep, clean
\* and the shared id counter, with "add" served by a plain handler and "log"
\* served by nobody.
Next ==
    \/ \E e \in Engines : toTransport[e] = "null" /\ RegisterToTransportCallback(e, "cb")
    \/ \E e \in Engines : Len(handlers) < MaxHandlers /\ RegisterHandler(e, "add", "returns")
    \/ \E e \in Engines, m \in Methods, ps \in ParamLists : \E a \in Contexts(e) :
           RequestCall(e, m, ps, a)
    \/ \E n \in Bursts : CreateRequestElsewhere(n)
    \/ \E e \in Engines : \E entry \in wire[e], a \in Contexts(e) :
           FromTransport(e, entry, a)
    \/ \E e \in Engines : SweepTick(e)
    \/ AdvanceTime
    \/ \E e \in Engines : budget.cleans < MaxSpecCleans /\ Clean(e, CleanReason)

Spec == Init /\ [][Next]_vars

\* Teardown: engines that are set up, used, cleaned, set up and cleaned again,
\* with time standing still.
TeardownNext ==
    \/ \E e \in Engines : toTransport[e] = "null" /\ RegisterToTransportCallback(e, "cb")
    \/ \E e \in Engines : Len(handlers) < MaxHandlers /\ RegisterHandler(e, "add", "returns")
    \/ \E h \in 1..MaxHandlers : AddGuard(h, ParamGuard, FALSE)
    \/ \E e \in Engines, ps \in ParamLists : \E a \in Contexts(e) :
           RequestCall(e, "add", ps, a)
    \/ \E n \in Bursts : CreateRequestElsewhere(n)
    \/ \E e \in Engines : \E entry \in wire[e], a \in Contexts(e) :
           FromTransport(e, entry, a)
    \/ \E e \in Engines : Clean(e, CleanReason)

TeardownSpec == Init /\ [][TeardownNext]_vars

\* The dispatcher: handlers of every kind for "add", guards, a request and a
\* notification for either method, with time standing still.
DispatchNext ==
    \/ \E e \in Engines : toTransport[e] = "null" /\ RegisterToTransportCallback(e, "cb")
    \/ \E e \in Engines, fn \in HandlerFns :
           Len(handlers) < MaxHandlers /\ RegisterHandler(e, "add", fn)
    \/ \E h \in 1..MaxHandlers, t \in {Guard, ParamGuard, AppData}, f \in BOOLEAN :
           AddGuard(h, t, f)
    \/ \E e \in Engines, m \in Methods, ps \in DispatchParamLists : \E a \in Contexts(e) :
           Len(calls) < MaxDispatchCalls /\ RequestCall(e, m, ps, a)
    \/ \E e \in Engines, m \in Methods, ps \in DispatchParamLists : \E a \in Contexts(e) :
           Notify(e, m, ps, a)
    \/ \E e \in Engines : \E entry \in wire[e], a \in Contexts(e) :
           FromTransport(e, entry, a)
    \/ \E p \in promises, f \in BOOLEAN : PromiseSettles(p, f)

DispatchSpec == Init /\ [][DispatchNext]_vars

\* The elements tried at position i (from 0) of an array.
GoodError == JObject([code |-> JNumber(1002), message |-> JString("m")])
ErrorObjects ==
    {GoodError,
     JObject([code |-> JNumber(1002), message |-> JString("m"), errorMessage |-> JString("bad")]),
     JObject([code |-> JString("1002"), message |-> JString("m")]),
     JObject([code |-> JNumber(1002), message |-> JNumber(1)]),
     JObject([code |-> JNumber(1002)]),
     JObject([message |-> JString("m")])}

Candidates(i) ==
    IF i = 0 THEN {JNumber(n) : n \in -1..4} \cup {JString("0")}
    ELSE IF i = 1 THEN {JNumber(1), JString("add"), JNull}
    ELSE IF i = 2 THEN {JString("add"), JNumber(1), JNull, JArray(<<JString("p")>>)}
                       \cup ErrorObjects
    ELSE IF i = 3 THEN {JArray(<<JString("p")>>), JString("x")}
    ELSE {JNull}

RECURSIVE ArraysOfLen(_)
ArraysOfLen(n) ==
    IF n = 0 THEN {<< >>}
    ELSE {Append(a, c) : a \in ArraysOfLen(n - 1), c \in Candidates(n - 1)}

\* The texts given to parseMessage.
RawInputs ==
    {NotJson}
        \cup {Text(v) : v \in {JNull, JNumber(1), JString("add"), GoodError}}
        \cup {Text(JArray(a)) : a \in UNION {ArraysOfLen(n) : n \in 0..MaxArrayLen}}

\* The messages the four exported constructors build.
BuiltMessages ==
    {CreateRequest(id, m, ps) : id \in {<<0, 1>>}, m \in Methods, ps \in DispatchParamLists}
        \cup {CreateNotification(m, ps) : m \in Methods, ps \in DispatchParamLists}
        \cup {CreateResponse(id, d) : id \in {<<0, 1>>}, d \in {"p", Null, Undefined}}
        \cup {CreateErrorResponse(id, APPLICATION_ERROR.code, APPLICATION_ERROR.message, d) :
                  id \in {<<0, 1>>, MinusOne}, d \in {Undefined, "", "bad"}}

\* The codec alone: a text of any shape, or the text JSON.stringify writes for
\* a built message, is at hand and parseMessage is called on it.
CodecInit ==
    /\ Constructed
    /\ \E raw \in RawInputs \cup {JsonStringify(Elements(x)) : x \in BuiltMessages} :
           decoded = [NotDecoded EXCEPT !.raw = raw]

CodecNext == ParseCall

CodecSpec == CodecInit /\ [][CodecNext]_vars

\* The messages somebody other than the peer engine sends.
ForeignMessages ==
    {CreateResponse(<<0, 1>>, "q"),
     CreateErrorResponse(<<0, 1>>, APPLICATION_ERROR.code, APPLICATION_ERROR.message, "bad"),
     CreateRequest(<<0, 7>>, "add", <<"p">>),
     CreateNotification("add", <<"p">>)}

\* The texts a transport delivers that no engine of the model wrote: their
\* texts, and texts that are no message.
ForeignRaws ==
    {JsonStringify(Elements(x)) : x \in ForeignMessages}
        \cup {NotJson, Text(JNull),
              Text(JArray(<<JNumber(4), JNumber(1), JString("add")>>)),
              Text(JArray(<<JNumber(Request), JString("1"), JString("add"),
                            JArray(<<JString("p")>>)>>)),
              Text(JArray(<<JNumber(ErrorResponse), JNumber(1),
                            JObject([code |-> JString("1002"), message |-> JString("m")])>>)),
              Text(JArray(<<JNumber(ErrorResponse), JNumber(1), JNull>>))}

\* An engine that is also given texts from elsewhere: a request, its reply
\* from the peer, and foreign texts at any moment, with time standing still.
DecodeNext ==
    \/ \E e \in Engines : toTransport[e] = "null" /\ RegisterToTransportCallback(e, "cb")
    \/ \E e \in Engines : Len(handlers) < MaxHandlers /\ RegisterHandler(e, "add", "returns")
    \/ \E e \in Engines, m \in Methods, ps \in ParamLists : \E a \in Contexts(e) :
           Len(calls) < MaxDispatchCalls /\ RequestCall(e, m, ps, a)
    \/ \E e \in Engines : \E entry \in wire[e], a \in Contexts(e) :
           FromTransport(e, entry, a)
    \/ \E e \in Engines, raw \in ForeignRaws : \E a \in Contexts(e) :
           FromTransportRaw(e, raw, a)

DecodeSpec == Init /\ [][DecodeNext]_vars

\* The timers fire (setInterval) and the clock runs.
FairSpec ==
    /\ Spec
    /\ WF_vars(AdvanceTime)
    /\ \A e \in Engines : WF_vars(SweepTick(e))

\* The sweep: requests for "add", their replies, clean, the ticks of the
\* interval timers and the clock, with the id counter left to the engines.
SweepNext ==
    \/ \E e \in Engines : toTransport[e] = "null" /\ RegisterToTransportCallback(e, "cb")
    \/ \E e \in Engines : Len(handlers) < MaxHandlers /\ RegisterHandler(e, "add", "returns")
    \/ \E e \in Engines, ps \in ParamLists : \E a \in Contexts(e) :
           RequestCall(e, "add", ps, a)
    \/ \E e \in Engines : \E entry \in wire[e], a \in Contexts(e) :
           FromTransport(e, entry, a)
    \/ \E e \in Engines : SweepTick(e)
    \/ AdvanceTime
    \/ \E e \in Engines : budget.cleans < MaxSpecCleans /\ Clean(e, CleanReason)

SweepSpec ==
    /\ Init /\ [][SweepNext]_vars
    /\ WF_vars(AdvanceTime)
    /\ \A e \in Engines : WF_vars(SweepTick(e))

(* ------------------------------ the claims ----------------------------- *)
IsPending(c) == calls[c].outcome.kind = "pending"
\* Call c still owns the entry stored under its id in its engine's table.
InTable(c) == \E p \in pendingRequests[calls[c].eng] : p.call = c
\* fromTransport of engine e took this entry off the wire in the step.
Delivered(e, entry) == entry \in wire[e] /\ wire'[e] = wire[e] \ {entry}
IsReply(raw) == raw.type \in {Response, ErrorResponse}

\* C1: every call of request() is removed from the pending table and settled
\* at one and the same moment, once: an unsettled call has its entry in the
\* table, a settled one has none, and a settled outcome never changes.
C1_SettledExactlyOnce ==
    [][\A c \in DOMAIN calls' :
          /\ (calls'[c].outcome.kind = "pending") <=>
                 (\E p \in pendingRequests'[calls'[c].eng] : p.call = c)
          /\ (c \in DOMAIN calls /\ ~IsPending(c)) => calls'[c] = calls[c]]_vars

\* C2: a reply settles only the call it was sent for, which was issued with
\* the reply's id, with the reply's content; all other entries stay.
C2_ReplySettlesItsOwnCall ==
    [][\A e \in Engines : \A entry \in wire[e] :
          (Delivered(e, entry) /\ IsReply(entry.raw)) =>
              \A c \in DOMAIN calls :
                  calls'[c] # calls[c] =>
                      /\ entry.for = c
                      /\ calls[c].id = entry.raw.id
                      /\ calls[c].eng = e
                      /\ pendingRequests'[e] =
                             {p \in pendingRequests[e] : p.call # c}]_vars

\* C3: every call of request() eventually settles.
C3_EveryCallSettles ==
    \A c \in 1..MaxCalls : (Len(calls) >= c) ~> (Len(calls) >= c /\ ~IsPending(c))

\* C4: no two unsettled calls of one engine carry the same id.
C4_UniqueIdsInFlight ==
    \A c, d \in DOMAIN calls :
        (c # d /\ calls[c].eng = calls[d].eng /\ IsPending(c) /\ IsPending(d))
            => calls[c].id # calls[d].id

\* C5: a call is rejected with REQUEST_TIMEOUT only at an age of at least
\* requestTimeout, and no call is still unsettled at an age of requestTimeout
\* plus one sweep interval.
C5_TimeoutWindow ==
    [][\A c \in DOMAIN calls :
          /\ (IsPending(c) /\ calls'[c].outcome.kind = "rejected"
                 /\ calls'[c].outcome.code = REQUEST_TIMEOUT.code)
                => now - calls[c].timestamp >= requestTimeout[calls[c].eng]
          /\ IsPending(c) =>
                now - calls[c].timestamp
                    < requestTimeout[calls[c].eng] + TIMEOUT_CHECK_INTERVAL_MS]_vars

\* The entry a delivery to engine e puts on the wire when it passes raw to
\* callToTransport: none when no callback is registered.
Emits(e, entry, raw) ==
    IF toTransport[e] = "null" THEN wire'[Peer(e)] = wire[Peer(e)]
    ELSE \E a \in Contexts(e) :
            LET sent == [raw |-> raw, appData |-> a, for |-> entry.for]
            IN  sent \notin wire[Peer(e)] /\ wire'[Peer(e)] = wire[Peer(e)] \cup {sent}

EmitsNothing(e) == wire'[Peer(e)] = wire[Peer(e)] /\ promises' = promises

ErrorReply(id, code, message, detail) ==
    [type |-> ErrorResponse, id |-> id,
     error |-> [code |-> code, message |-> message, errorMessage |-> detail]]

\* A delivery of an ErrorResponse with this code to the engine that holds a
\* pending entry under its id rejects that entry's call with the code, the
\* message and the detail of the reply (an absent detail reads as '').
RejectsCaller(code, detail) ==
    \A e \in Engines : \A entry \in wire[e] :
        (/\ Delivered(e, entry)
         /\ entry.raw.type = ErrorResponse
         /\ entry.raw.error.code = code) =>
            \A p \in pendingRequests[e] :
                p.id = entry.raw.id =>
                    /\ p \notin pendingRequests'[e]
                    /\ calls'[p.call].outcome =
                           [kind |-> "rejected", code |-> code,
                            message |-> entry.raw.error.message,
                            id |-> entry.raw.id, errorMessage |-> detail]

C8_UnknownRequestRejected ==
    [][/\ \A e \in Engines : \A entry \in wire[e] :
            (/\ Delivered(e, entry)
             /\ entry.raw.type = Request
             /\ dispatcher[e][entry.raw.method] = 0) =>
                  /\ Emits(e, entry, ErrorReply(entry.raw.id, 1002,
                         "Method not found. The method does not exist / is not available.",
                         Undefined))
                  /\ promises' = promises
                  /\ execLog' = << >>
       /\ RejectsCaller(1002, "")]_vars

C8_Witness ==
    \E c \in DOMAIN calls :
        /\ calls[c].outcome.kind = "rejected"
        /\ calls[c].outcome.code = 1002
        /\ calls[c].outcome.id = calls[c].id

\* The guards and the handler a delivery of this message to e must invoke.
FirstFailing(gs) ==
    IF \E k \in DOMAIN gs : gs[k].fails
    THEN CHOOSE k \in DOMAIN gs : gs[k].fails /\ \A j \in 1..(k - 1) : ~gs[j].fails
    ELSE 0

\* C9: the guards of the matched handler run in the order of their attachment,
\* each once; when guard k raises, no later guard and not the handler runs,
\* and otherwise the handler runs after the last guard.
C9_GuardsInOrder ==
    [][\A e \in Engines : \A entry \in wire[e] :
          (/\ Delivered(e, entry)
           /\ entry.raw.type \in {Request, Notification}
           /\ dispatcher[e][entry.raw.method] # 0) =>
              LET gs == handlers[dispatcher[e][entry.raw.method]].guards
                  k == FirstFailing(gs)
              IN  /\ \A i \in DOMAIN execLog' :
                        \/ execLog'[i].fn = i /\ i <= Len(gs)
                        \/ execLog'[i].fn = 0 /\ i = Len(gs) + 1
                  /\ k # 0 => Len(execLog') = k
                  /\ k = 0 => Len(execLog') = Len(gs) + 1]_vars

\* Of two guards the first raised: it alone was invoked, and the request was
\* answered with a guard error.
C9_Witness ==
    /\ Len(handlers) = 1
    /\ Len(handlers[1].guards) = 2
    /\ handlers[1].guards[1].fails
    /\ Len(execLog) = 1 /\ execLog[1].fn = 1
    /\ \E e \in Engines : \E entry \in wire[e] :
           entry.raw.type = ErrorResponse /\ entry.raw.error.code = 1006

\* C10: when a guard raises for an inbound Request, the handler is not run,
\* one ErrorResponse with the request's id, code GUARD_ERROR (1006) and the
\* stringified failure as detail is emitted, and that reply rejects the
\* caller's pending call with code 1006 and that detail.
C10_GuardErrorRejected ==
    [][/\ \A e \in Engines : \A entry \in wire[e] :
            (/\ Delivered(e, entry)
             /\ entry.raw.type = Request
             /\ dispatcher[e][entry.raw.method] # 0
             /\ FirstFailing(handlers[dispatcher[e][entry.raw.method]].guards) # 0) =>
                  /\ Emits(e, entry, ErrorReply(entry.raw.id, 1006, "Guard error",
                                                "Error: unauthorized"))
                  /\ promises' = promises
                  /\ \A i \in DOMAIN execLog' : execLog'[i].fn # 0
       /\ RejectsCaller(1006, "Error: unauthorized")]_vars

C10_Witness ==
    \E c \in DOMAIN calls :
        /\ calls[c].outcome.kind = "rejected"
        /\ calls[c].outcome.code = 1006
        /\ calls[c].outcome.errorMessage = "Error: unauthorized"
        /\ calls[c].outcome.id = calls[c].id

\* The handler a delivery of this Request or Notification to e reaches when no
\* guard raises: its function, or "none".
Reaches(e, raw) ==
    IF dispatcher[e][raw.method] = 0 THEN "none"
    ELSE IF FirstFailing(handlers[dispatcher[e][raw.method]].guards) # 0 THEN "none"
    ELSE handlers[dispatcher[e][raw.method]].fn

\* C11: when the handler of an inbound Request throws synchronously, exactly
\* one ErrorResponse with the request's id, code APPLICATION_ERROR (1007) and
\* the thrown message as detail is emitted, no Response is emitted or left to
\* be emitted later, and that reply rejects the caller's pending call with code
\* 1007 and that detail.
C11_HandlerThrowRejected ==
    [][/\ \A e \in Engines : \A entry \in wire[e] :
            (/\ Delivered(e, entry)
             /\ entry.raw.type = Request
             /\ Reaches(e, entry.raw) = "throws") =>
                  /\ Emits(e, entry, ErrorReply(entry.raw.id, 1007, "Application error",
                                                "bad"))
                  /\ promises' = promises
                  /\ execLog' # << >> /\ execLog'[Len(execLog')].fn = 0
       /\ RejectsCaller(1007, "bad")]_vars

C11_Witness ==
    /\ Len(handlers) = 1 /\ handlers[1].fn = "throws"
    /\ \E c \in DOMAIN calls :
           /\ calls[c].outcome.kind = "rejected"
           /\ calls[c].outcome.code = 1007
           /\ calls[c].outcome.errorMessage = "bad"
           /\ calls[c].outcome.id = calls[c].id
    /\ \A e \in Engines : wire[e] = {}

\* C12: a Request whose handler returns a promise is answered by nothing until
\* the promise settles; while it is unsettled no reply to that request is on
\* the wire and the engine takes further deliveries and further request()
\* calls; when it settles exactly one reply with the request's id is emitted, a
\* Response with the fulfilled value or an ErrorResponse with code
\* APPLICATION_ERROR (1007).
C12_AsyncHandlerRepliesOnce ==
    [][/\ \A e \in Engines : \A entry \in wire[e] :
            (/\ Delivered(e, entry)
             /\ entry.raw.type = Request
             /\ Reaches(e, entry.raw) = "async") =>
                  /\ wire'[Peer(e)] = wire[Peer(e)]
                  /\ \E q \in promises' :
                         /\ q \notin promises /\ promises' = promises \cup {q}
                         /\ q.eng = e /\ q.messageId = entry.raw.id /\ q.for = entry.for
                         /\ q.value = entry.raw.params[1]
       /\ \A q \in promises :
            /\ \A entry \in wire[Peer(q.eng)] : ~(IsReply(entry.raw) /\ entry.for = q.for)
            /\ \A entry \in wire[q.eng] : \A a \in Contexts(q.eng) :
                   ENABLED FromTransport(q.eng, entry, a)
            /\ Len(calls) < MaxDispatchCalls =>
                   \A ps \in DispatchParamLists : \A a \in Contexts(q.eng) :
                       ENABLED RequestCall(q.eng, "add", ps, a)
            /\ (q \notin promises') =>
                   /\ promises' = promises \ {q}
                   /\ \/ Emits(q.eng, q, [type |-> Response, id |-> q.messageId,
                                            result |-> q.value])
                      \/ Emits(q.eng, q, ErrorReply(q.messageId, 1007,
                                                    "Application error", "bad"))]_vars

\* A promise for the request with parameter "p" is unsettled, and the handler
\* has since been run for the notification with parameter "q".
C12_Witness ==
    /\ \E q \in promises : q.value = "p" /\ q.for > 0
    /\ execLog # << >>
    /\ execLog[Len(execLog)].fn = 0
    /\ execLog[Len(execLog)].args[1] = "q"

\* A request of a call is delivered with the call's parameters to a handler
\* that returns, and is answered by a Response carrying sent(fn, params); a
\* Response that finds an entry under its id resolves the call it was sent for
\* with the result it carries.
SettlesWith(sent(_, _)) ==
    \A e \in Engines : \A entry \in wire[e] :
        /\ (/\ Delivered(e, entry)
            /\ entry.raw.type = Request
            /\ entry.for \in DOMAIN calls
            /\ Reaches(e, entry.raw) \in {"returns", "void"}) =>
                 /\ entry.raw.params = calls[entry.for].params
                 /\ Emits(e, entry,
                          [type |-> Response, id |-> entry.raw.id,
                           result |-> sent(Reaches(e, entry.raw), entry.raw.params)])
        /\ (Delivered(e, entry) /\ entry.raw.type = Response) =>
                 \A p \in pendingRequests[e] :
                     p.id = entry.raw.id =>
                         /\ p.call = entry.for
                         /\ calls'[p.call].outcome = Resolved(entry.raw.result)

\* What arrives of a handler's result: null when there is none.
Serialized(fn, params) == IF fn = "void" THEN Null ELSE params[1]

\* C13 as stated: a call that reached a handler whose guards all passed settles
\* successfully with exactly the value the handler returned for its parameters.
C13_SettlesWithReturnedValue == [][SettlesWith(HandlerResult)]_vars

\* C13 as amended: such a call settles successfully with the value the handler
\* returned for its parameters, and with null when the handler returned nothing.
C13_SettlesWithSerializedValue == [][SettlesWith(Serialized)]_vars

\* A call with parameter "q" to a handler that returns nothing has settled.
C13_Witness ==
    /\ Len(handlers) = 1 /\ handlers[1].fn = "void"
    /\ \E c \in DOMAIN calls :
           calls[c].params = <<"q">> /\ calls[c].outcome.kind = "resolved"

\* parseMessage threw a KissRpcError with this code.
ThrewKissRpcError(result, code) ==
    result.kind = "threw" /\ result.error.kind = "rejected" /\ result.error.code = code

\* A parsed JSON value that is no envelope: not an array, a tag other than the
\* numbers 0..3, an id that is no number, a method that is no string, or an
\* ErrorResponse whose error is null, no object, or lacks a numeric code or a
\* string message.
InvalidEnvelope(v) ==
    \/ v.t # "array"
    \/ LET m == v.items
           tag == At(m, 0)
       IN  \/ tag.t # "number"
           \/ tag.n \notin 0..3
           \/ tag.n \in {Request, Response, ErrorResponse} /\ At(m, 1).t # "number"
           \/ tag.n = Request /\ At(m, 2).t # "string"
           \/ tag.n = Notification /\ At(m, 1).t # "string"
           \/ tag.n = ErrorResponse /\
                  \/ At(m, 2).t # "object"
                  \/ Get(At(m, 2), "code").t # "number"
                  \/ Get(At(m, 2), "message").t # "string"

\* C18: parseMessage fails with a KissRpcError of code PARSE_ERROR (1000) for
\* every text that is not JSON and with a KissRpcError of code INVALID_REQUEST
\* (1001) for every JSON text that is no envelope; for such input it throws
\* nothing else and returns no message.
C18_ParseFailureCodes ==
    decoded.result.kind # "none" =>
        /\ ~decoded.raw.json => ThrewKissRpcError(decoded.result, 1000)
        /\ (decoded.raw.json /\ InvalidEnvelope(decoded.raw.value)) =>
               ThrewKissRpcError(decoded.result, 1001)

\* Reading a and b field by field gives the same: the same elements, and for
\* an object the same value under every key (undefined for a key it lacks).
SameFields(a, b) ==
    /\ a.t = "array" /\ b.t = "array"
    /\ Len(a.items) = Len(b.items)
    /\ \A i \in DOMAIN a.items :
           LET u == a.items[i]
               v == b.items[i]
           IN  IF u.t = "object" /\ v.t = "object"
               THEN \A k \in DOMAIN u.fields \cup DOMAIN v.fields : Get(u, k) = Get(v, k)
               ELSE u = v

\* C20 as stated: for every built message x, parseMessage(JSON.stringify(x))
\* returns a message equal to x field for field.
C20_RoundTrip ==
    \A x \in BuiltMessages :
        (decoded.result.kind # "none" /\ decoded.raw = JsonStringify(Elements(x))) =>
            /\ decoded.result.kind = "message"
            /\ SameFields(decoded.result.message, Elements(x))

\* C20 as amended: it returns a message equal to x field for field, except that
\* the absent result of a Response comes back as null.
C20_RoundTripUpToAbsentResult ==
    \A x \in BuiltMessages :
        (decoded.result.kind # "none" /\ decoded.raw = JsonStringify(Elements(x))) =>
            /\ decoded.result.kind = "message"
            /\ SameFields(decoded.result.message,
                          IF x.type = Response /\ x.result = Undefined
                          THEN Elements(CreateResponse(x.id, Null))
                          ELSE Elements(x))

\* The text of an ErrorResponse built without a detail has been parsed.
C20_Witness ==
    /\ decoded.raw = JsonStringify(Elements(CreateErrorResponse(MinusOne,
                          APPLICATION_ERROR.code, APPLICATION_ERROR.message, Undefined)))
    /\ decoded.result.kind = "message"

\* A text parseMessage cannot decode: no JSON, or JSON that is no envelope.
Undecodable(raw) == ~raw.json \/ InvalidEnvelope(raw.value)

\* C19: when fromTransport is given a text that cannot be decoded, exactly one
\* ErrorResponse with id -1 and the code of the decode failure (1000 for text
\* that is no JSON, 1001 for JSON that is no envelope) is emitted, no guard and
\* no handler is invoked and no pending entry changes.
C19_DecodeFailureAnswered ==
    [][\A e \in Engines : \A raw \in ForeignRaws : \A a \in Contexts(e) :
          (FromTransportRaw(e, raw, a) /\ Undecodable(raw)) =>
              /\ Emits(e, [for |-> 100 + budget.raws],
                       IF raw.json
                       THEN ErrorReply(MinusOne, 1001,
                                "Invalid Request. The JSON sent is not a valid Request object.",
                                "")
                       ELSE ErrorReply(MinusOne, 1000, PARSE_ERROR.message, ""))
              /\ execLog' = << >>
              /\ pendingRequests' = pendingRequests
              /\ calls' = calls
              /\ promises' = promises]_vars

\* Engine e has no pending entry under the id of this reply.
Unmatched(e, message) ==
    IsReply(message) /\ \A p \in pendingRequests[e] : p.id # message.id

\* C14: a Response or ErrorResponse whose id matches no pending entry of the
\* engine it is delivered to, from the peer or from elsewhere, changes neither
\* the pending tables, the dispatcher, the sweep timer nor any promise, and
\* hands nothing to the transport.
C14_UnmatchedReplyIgnored ==
    [][\A e \in Engines :
          LET Ignored == /\ pendingRequests' = pendingRequests
                         /\ dispatcher' = dispatcher
                         /\ handlers' = handlers
                         /\ timeoutCheckInterval' = timeoutCheckInterval
                         /\ calls' = calls
                         /\ promises' = promises
                         /\ wire'[Peer(e)] = wire[Peer(e)]
          IN  /\ \A entry \in wire[e] :
                     (Delivered(e, entry) /\ Unmatched(e, entry.raw)) => Ignored
              /\ \A raw \in ForeignRaws : \A a \in Contexts(e) :
                     (/\ FromTransportRaw(e, raw, a)
                      /\ ParseMessage(raw).kind = "message"
                      /\ Unmatched(e, Named(ParseMessage(raw).message))) => Ignored]_vars

\* The call was answered by the peer with "p", and the last text its engine was
\* given is the foreign Response "q" with the same id.
C14_Witness ==
    \E c \in DOMAIN calls :
        /\ calls[c].outcome = Resolved("p")
        /\ decoded.eng = calls[c].eng
        /\ decoded.result.kind = "message"
        /\ decoded.raw = JsonStringify(Elements(CreateResponse(calls[c].id, "q")))
        /\ \A e \in Engines : wire[e] = {}

\* Engine e is as clean() leaves it.
IsClean(e) ==
    /\ pendingRequests[e] = {}
    /\ \A m \in Methods : dispatcher[e][m] = 0
    /\ timeoutCheckInterval[e] = NoTimer
    /\ toTransport[e] = "null"

C16_LocalFailuresStayLocal ==
    [][/\ \A e \in Engines :
            (SweepTick(e) \/ Clean(e, CleanReason)) => wire' = wire /\ promises' = promises
       /\ \A e \in Engines : \A entry \in wire'[e] :
            entry.raw.type = ErrorResponse => entry.raw.error.code \notin {1004, 1005}]_vars

\* One call was evicted by the sweep, another rejected by clean().
C16_Witness ==
    /\ \E c \in DOMAIN calls :
           calls[c].outcome.kind = "rejected" /\ calls[c].outcome.code = 1005
    /\ \E c \in DOMAIN calls :
           calls[c].outcome.kind = "rejected" /\ calls[c].outcome.code = 1004
    /\ \A e \in Engines : wire[e] = {}

\* C17: a sweep tick that finds or leaves the pending table empty stops the
\* timer, a stopped timer ticks no more, a running timer over an empty table is
\* at most one interval from its tick, request() on an empty table leaves the
\* timer running, and a timer running over an empty table is eventually
\* stopped unless a request is inserted.
C17_SweepStopsWhenIdle ==
    /\ [][\A e \in Engines :
             /\ (SweepTick(e) /\ pendingRequests'[e] = {}) =>
                    timeoutCheckInterval'[e] = NoTimer
             /\ SweepTick(e) => timeoutCheckInterval[e] # NoTimer
             /\ (pendingRequests[e] = {} /\ timeoutCheckInterval[e] # NoTimer) =>
                    /\ timeoutCheckInterval[e] >= now
                    /\ timeoutCheckInterval[e] <= now + TIMEOUT_CHECK_INTERVAL_MS
             /\ (pendingRequests[e] = {} /\ pendingRequests'[e] # {}) =>
                    timeoutCheckInterval'[e] # NoTimer]_vars
    /\ \A e \in Engines :
           (pendingRequests[e] = {} /\ timeoutCheckInterval[e] # NoTimer)
               ~> (timeoutCheckInterval[e] = NoTimer \/ pendingRequests[e] # {})

\* The timer of an engine was left running over an empty table by a reply,
\* stopped itself at its next tick, and was started again by the next request.
C17_Witness ==
    \E c, d \in DOMAIN calls :
        /\ c < d /\ calls[c].eng = calls[d].eng
        /\ calls[c].outcome.kind = "resolved"
        /\ calls[d].timestamp >= calls[c].timestamp + TIMEOUT_CHECK_INTERVAL_MS
        /\ IsPending(d)
        /\ timeoutCheckInterval[calls[d].eng] = calls[d].timestamp + TIMEOUT_CHECK_INTERVAL_MS
        /\ calls[d].timestamp % TIMEOUT_CHECK_INTERVAL_MS # calls[c].timestamp % TIMEOUT_CHECK_INTERVAL_MS

(* ------------------------------- C21 ----------------------------------- *)
\* The four shapes of an envelope: the tag, then the fields of that tag with
\* their types, and nothing else.
MatchesShape(v) ==
    /\ v.t = "array"
    /\ LET m == v.items
           tag == At(m, 0)
       IN  /\ tag.t = "number"
           /\ tag.n \in 0..3
           /\ tag.n = Request =>
                  /\ Len(m) = 4
                  /\ At(m, 1).t = "number" /\ At(m, 2).t = "string" /\ At(m, 3).t = "array"
           /\ tag.n = Notification =>
                  Len(m) = 3 /\ At(m, 1).t = "string" /\ At(m, 2).t = "array"
           /\ tag.n = Response => Len(m) = 3 /\ At(m, 1).t = "number"
           /\ tag.n = ErrorResponse =>
                  /\ Len(m) = 3
                  /\ At(m, 1).t = "number"
                  /\ At(m, 2).t = "object"
                  /\ Get(At(m, 2), "code").t = "number"
                  /\ Get(At(m, 2), "message").t = "string"

\* C21: isMessage(v) returns true exactly when v is an array of one of the
\* four shapes (tag 0..3, the arity of the tag, the field types of the tag) and
\* returns false for every other value.
C21_IsMessageExactlyShapes ==
    (decoded.result.kind # "none" /\ decoded.raw.json) =>
        IsMessage(decoded.raw.value) =
            (IF MatchesShape(decoded.raw.value) THEN "true" ELSE "false")

(* ------------------------------- C22 ----------------------------------- *)
MaxRegistrations == 2

\* Registering again: "add" is registered up to MaxRegistrations times, with a
\* handler that returns or one that throws, and guards are attached through
\* any handle ever returned, the replaced ones included.
ReplaceNext ==
    \/ \E e \in Engines : toTransport[e] = "null" /\ RegisterToTransportCallback(e, "cb")
    \/ \E e \in Engines, fn \in {"returns", "throws"} :
           Len(handlers) < MaxRegistrations /\ RegisterHandler(e, "add", fn)
    \/ \E h \in 1..MaxRegistrations, f \in BOOLEAN : AddGuard(h, ParamGuard, f)
    \/ \E e \in Engines, ps \in ParamLists : \E a \in Contexts(e) :
           Len(calls) < MaxDispatchCalls /\ RequestCall(e, "add", ps, a)
    \/ \E e \in Engines, ps \in ParamLists : \E a \in Contexts(e) :
           Notify(e, "add", ps, a)
    \/ \E e \in Engines : \E entry \in wire[e], a \in Contexts(e) :
           FromTransport(e, entry, a)

ReplaceSpec == Init /\ [][ReplaceNext]_vars

\* The handles registerHandler returned for method m of engine e, and the one
\* returned last (0 when there is none).
Handles(e, m) == {h \in DOMAIN handlers : handlers[h].eng = e /\ handlers[h].method = m}
Latest(e, m) ==
    IF Handles(e, m) = {} THEN 0
    ELSE CHOOSE h \in Handles(e, m) : \A g \in Handles(e, m) : g <= h

\* The functions a delivery invokes when it runs handle h: its guards in order
\* up to the first that raises (their positions), then its handler (0) if none
\* raised.
RunOf(h) ==
    LET gs == handlers[h].guards
        k == FirstFailing(gs)
    IN  [i \in 1..(IF k # 0 THEN k ELSE Len(gs) + 1) |-> IF i <= Len(gs) THEN i ELSE 0]

\* The functions the last handleMessage invoked, in order.
Invoked(log) == [i \in DOMAIN log |-> log[i].fn]

\* What handle h answers to a Request: a guard error, the handler's throw, or
\* the handler's result.
AnswerOf(h, id, params) ==
    IF FirstFailing(handlers[h].guards) # 0
    THEN ErrorReply(id, 1006, "Guard error", "Error: unauthorized")
    ELSE IF handlers[h].fn = "throws"
    THEN ErrorReply(id, 1007, "Application error", "bad")
    ELSE [type |-> Response, id |-> id, result |-> params[1]]

\* C22: once a method was registered again, every inbound call to it invokes
\* the guards attached through the handle returned last and then the handler
\* registered last, and nothing of the replaced registrations: the invocations
\* and the reply are those of the last handle, whatever was attached through
\* the older handles before or after.
C22_ReRegistrationReplaces ==
    [][\A e \in Engines : \A entry \in wire[e] :
          (/\ Delivered(e, entry)
           /\ entry.raw.type \in {Request, Notification}
           /\ Cardinality(Handles(e, entry.raw.method)) > 1) =>
              LET new == Latest(e, entry.raw.method)
              IN  /\ Invoked(execLog') = RunOf(new)
                  /\ IF entry.raw.type = Request
                     THEN Emits(e, entry, AnswerOf(new, entry.raw.id, entry.raw.params))
                     ELSE EmitsNothing(e)]_vars

\* A request was answered with the throw of the handler registered second,
\* while the handle of the replaced handler, which returns, carries a guard
\* that raises.
C22_Witness ==
    /\ Len(handlers) = 2
    /\ handlers[1].eng = handlers[2].eng
    /\ handlers[1].fn = "returns" /\ handlers[2].fn = "throws"
    /\ \E k \in DOMAIN handlers[1].guards : handlers[1].guards[k].fails
    /\ execLog # << >> /\ execLog[Len(execLog)].fn = 0
    /\ \E e \in Engines : \E entry \in wire[e] :
           entry.raw.type = ErrorResponse /\ entry.raw.error.code = 1007

(* ---------------------------- C23 and C24 ------------------------------ *)
\* fromTransport(rawMessage, appData?) of the with-context engine: the context
\* is an optional argument.
DeliveryContexts(e) == IF WithAppData(e) THEN AppDatas \cup {Undefined} ELSE {NoAppData}

\* What a guard function does: throw, return nothing, or return false.
GuardFns == {<<TRUE, Undefined>>, <<FALSE, Undefined>>, <<FALSE, False>>}

\* Guards of every kind and behaviour on the handler of "add", and deliveries
\* with and without a context value.
GuardNext ==
    \/ \E e \in Engines : toTransport[e] = "null" /\ RegisterToTransportCallback(e, "cb")
    \/ \E e \in Engines : Len(handlers) < MaxHandlers /\ RegisterHandler(e, "add", "returns")
    \/ \E h \in 1..MaxHandlers, t \in {Guard, ParamGuard, AppData}, g \in GuardFns :
           AddGuardFn(h, t, g[1], g[2])
    \/ \E e \in Engines, ps \in ParamLists : \E a \in Contexts(e) :
           Len(calls) < MaxDispatchCalls /\ RequestCall(e, "add", ps, a)
    \/ \E e \in Engines, ps \in ParamLists : \E a \in Contexts(e) :
           Notify(e, "add", ps, a)
    \/ \E e \in Engines : \E entry \in wire[e], a \in DeliveryContexts(e) :
           FromTransport(e, entry, a)

GuardSpec == Init /\ [][GuardNext]_vars

\* The guards of the handler a delivery of raw to e is dispatched to.
GuardsFor(e, raw) == handlers[dispatcher[e][raw.method]].guards

\* C23: when a guard of the matched handler returns false for an inbound
\* Request or Notification, the handler is not executed for it.
C23_FalseGuardStopsHandler ==
    [][\A e \in Engines : \A entry \in wire[e] :
          (/\ Delivered(e, entry)
           /\ entry.raw.type \in {Request, Notification}
           /\ dispatcher[e][entry.raw.method] # 0
           /\ \E i \in DOMAIN execLog' :
                  /\ execLog'[i].fn # 0
                  /\ GuardsFor(e, entry.raw)[execLog'[i].fn].returns = False) =>
              \A i \in DOMAIN execLog' : execLog'[i].fn # 0]_vars


\* No guard other than a context-only one raises.
OthersPass(gs) == \A k \in DOMAIN gs : gs[k].fails => gs[k].type = AppData

\* C24: when the with-context engine is handed a Request or Notification with
\* no context value (undefined), no context-only guard of the matched handler
\* is invoked, and unless a guard of another kind raises the handler runs.
C24_ContextGuardSkipped ==
    [][\A e \in Engines : \A entry \in wire[e] :
          (/\ WithAppData(e)
           /\ FromTransport(e, entry, Undefined)
           /\ entry.raw.type \in {Request, Notification}
           /\ dispatcher[e][entry.raw.method] # 0) =>
              LET gs == GuardsFor(e, entry.raw)
              IN  /\ \A i \in DOMAIN execLog' :
                         execLog'[i].fn # 0 => gs[execLog'[i].fn].type # AppData
                  /\ OthersPass(gs) =>
                         /\ execLog' # << >>
                         /\ execLog'[Len(execLog')].fn = 0]_vars

(* ------------------------------- C25 ----------------------------------- *)
\* Requests and Notifications written by somebody other than the peer engine:
\* with params an array, with params left out, and with a number for params
\* (isMessage does not look at params).
RequestRaw(ps) ==
    Text(JArray(<<JNumber(Request), JNumber(1), JString("add")>> \o ps))
NotificationRaw(ps) ==
    Text(JArray(<<JNumber(Notification), JString("add")>> \o ps))
NoParams == << >>
ArrayParams == <<JArray(<<JString("p")>>)>>
NumberParams == <<JNumber(5)>>
InboundRaws ==
    {RequestRaw(ps) : ps \in {ArrayParams, NoParams, NumberParams}}
        \cup {NotificationRaw(ps) : ps \in {ArrayParams, NoParams, NumberParams}}

\* Inbound calls of every shape that passes validation, handed to an engine
\* whose handler for "add" has guards.
InboundNext ==
    \/ \E e \in Engines : toTransport[e] = "null" /\ RegisterToTransportCallback(e, "cb")
    \/ \E e \in Engines, fn \in HandlerFns :
           Len(handlers) < MaxHandlers /\ RegisterHandler(e, "add", fn)
    \/ \E h \in 1..MaxHandlers, t \in {Guard, ParamGuard, AppData}, f \in BOOLEAN :
           AddGuard(h, t, f)
    \/ \E e \in Engines, raw \in InboundRaws : \E a \in Contexts(e) :
           FromTransportRaw(e, raw, a)
    \/ \E p \in promises, f \in BOOLEAN : PromiseSettles(p, f)

InboundSpec == Init /\ [][InboundNext]_vars

\* The type of the params element of a text that is a Request or Notification.
RawParamsType(raw) == ParamsType(Named(raw.value))
IsCall(raw) == raw.value.items[1].n \in {Request, Notification}

\* The arguments the guard at position i, and the handler (position 0), of a
\* handler with guards gs are to be invoked with for parameters params: the
\* parameters, plus the context in the with-context engine; a parameter-only
\* guard the parameters, a context-only guard the context.
ArgsFor(e, gs, i, params, a) ==
    IF ~WithAppData(e) THEN params
    ELSE IF i = 0 \/ gs[i].type = Guard THEN Append(params, a)
    ELSE IF gs[i].type = ParamGuard THEN params
    ELSE <<a>>

\* Handle h run on params: the guards in order up to the first that raises,
\* then the handler if none raised, each with its arguments.
RunWith(e, h, params, a) ==
    LET seq == RunOf(h)
    IN  [i \in DOMAIN seq |->
            [fn |-> seq[i], args |-> ArgsFor(e, handlers[h].guards, seq[i], params, a)]]

\* C25: a Request or Notification that passes validation with its params left
\* out is processed as one with empty params, in both engines: the guards and
\* the handler of its method are invoked with no parameters (plus the context
\* in the with-context engine).
C25_OmittedParamsAreEmpty ==
    [][\A e \in Engines, raw \in InboundRaws : \A a \in Contexts(e) :
          (/\ FromTransportRaw(e, raw, a)
           /\ RawParamsType(raw) = "undefined"
           /\ dispatcher[e]["add"] # 0) =>
              execLog' = RunWith(e, dispatcher[e]["add"], << >>, a)]_vars

(* ---------------------------- C26 and C27 ------------------------------ *)
\* Two context values, for calls made on and deliveries made to the
\* with-context engine.
ContextValues == {"ctxA", "ctxB"}
AnyContext(e) == IF WithAppData(e) THEN ContextValues ELSE {NoAppData}

\* The engines that take a context value.
ContextEngines == {e \in Engines : WithAppData(e)}

\* Contexts: requests of either engine, a notification of the with-context
\* engine and texts that are no JSON, handed over with either context value;
\* the with-context engine serves "add" with a handler that returns its first
\* parameter, at once or later, and a guard that raises may be attached.
ContextNext ==
    \/ \E e \in Engines : toTransport[e] = "null" /\ RegisterToTransportCallback(e, "cb")
    \/ \E e \in ContextEngines, fn \in {"returns", "async"} :
           Len(handlers) < MaxHandlers /\ RegisterHandler(e, "add", fn)
    \/ \E h \in 1..MaxHandlers :
           h \in DOMAIN handlers /\ handlers[h].guards = << >> /\ AddGuard(h, ParamGuard, TRUE)
    \/ \E e \in Engines, ps \in ParamLists : \E a \in AnyContext(e) :
           RequestCall(e, "add", ps, a)
    \/ \E e \in ContextEngines, ps \in ParamLists : \E a \in AnyContext(e) :
           Notify(e, "add", ps, a)
    \/ \E e \in Engines : \E entry \in wire[e], a \in AnyContext(e) :
           FromTransport(e, entry, a)
    \/ \E e \in ContextEngines : \E a \in AnyContext(e) : FromTransportRaw(e, NotJson, a)
    \/ \E p \in promises, f \in BOOLEAN : PromiseSettles(p, f)

ContextSpec == Init /\ [][ContextNext]_vars


\* The text raw carries the value a in one of its fields.
Mentions(raw, a) ==
    IF raw.type \in {Request, Notification}
    THEN raw.method = a \/ \E i \in DOMAIN raw.params : raw.params[i] = a
    ELSE IF raw.type = Response THEN raw.result = a
    ELSE raw.error.message = a \/ raw.error.errorMessage = a

\* What the with-context engine e hands to its transport callback for the
\* delivery of entry with context a: the reply sent at once, and the replies
\* its asynchronous handler will have sent.
Handed(e, entry, a) ==
    LET r == HandleMessageWithAppData(e, entry.raw, a, entry.for)
    IN  [now |-> r.out,
         later |-> {[id |-> p.messageId, value |-> p.value] : p \in r.promises}]

\* C26: the context value is never serialized.  No text handed to a transport
\* callback carries a context value, and what the with-context engine hands to
\* its callback for a delivery is the same text whichever context value comes
\* with the delivery (handlers and guards not looking at the context), so two
\* runs that differ only in the context values emit the same texts.
C26_ContextNeverOnWire ==
    /\ \A e \in Engines : \A entry \in wire[e] : \A a \in ContextValues :
           ~Mentions(entry.raw, a)
    /\ \A e \in ContextEngines : \A entry \in wire[e] : \A a1, a2 \in ContextValues :
           Handed(e, entry, a1) = Handed(e, entry, a2)

\* The with-context engine has handed a Request to its callback with one
\* context value and a Response with the other.
C26_Witness ==
    \E e \in ContextEngines : \E x, y \in wire[Peer(e)] :
        /\ x.raw.type = Request /\ x.appData = "ctxB"
        /\ y.raw.type = Response /\ y.appData = "ctxA"


\* The entries a step hands to the transport callback of engine e, and the
\* asynchronous results it starts to wait for.
NewlyHanded(e) == wire'[Peer(e)] \ wire[Peer(e)]
NewlyAwaited == promises' \ promises

\* C27: the with-context engine hands every reply to its transport callback
\* with the context value of the delivery that caused it: the reply sent while
\* the delivery is handled, the id -1 reply to a text that does not decode, and
\* the reply sent when the promise of an asynchronous handler settles, which
\* keeps the context value of its own delivery whatever was delivered since.
C27_ReplyKeepsDeliveryContext ==
    [][/\ \A e \in ContextEngines : \A entry \in wire[e], a \in ContextValues :
              FromTransport(e, entry, a) =>
                  /\ \A x \in NewlyHanded(e) :
                         IsReply(x.raw) /\ x.appData = a /\ x.for = entry.for
                  /\ \A p \in NewlyAwaited :
                         p.eng = e /\ p.appData = a /\ p.for = entry.for
       /\ \A e \in ContextEngines : \A a \in ContextValues :
              FromTransportRaw(e, NotJson, a) =>
                  \A x \in NewlyHanded(e) : x.raw.id = MinusOne /\ x.appData = a
       /\ \A p \in promises : \A f \in BOOLEAN :
              (PromiseSettles(p, f) /\ WithAppData(p.eng)) =>
                  /\ toTransport[p.eng] # "null" => NewlyHanded(p.eng) # {}
                  /\ \A x \in NewlyHanded(p.eng) :
                         /\ IsReply(x.raw) /\ x.raw.id = p.messageId
                         /\ x.appData = p.appData /\ x.for = p.for]_vars

\* Two requests were delivered with different context values to an
\* asynchronous handler; both promises have settled and each reply was handed
\* over with the context value of its own delivery.
C27_Witness ==
    \E e \in ContextEngines : \E x, y \in wire[Peer(e)] :
        /\ x.raw.type = Response /\ y.raw.type = Response
        /\ x.for # y.for
        /\ x.appData = "ctxA" /\ y.appData = "ctxB"
        /\ promises = {}
        /\ Len(handlers) = 1 /\ handlers[1].fn = "async"

(* ------------------------------- C28 ----------------------------------- *)
IsRequestRaw(raw) == raw.value.items[1].n = Request
RawId(raw) == U32(raw.value.items[2].n)

\* C28: an inbound Request that passed validation is dispatched, its guards
\* run, then its handler, and it ends in exactly one reply carrying its id
\* (a transport callback being registered): either the one reply is handed
\* over while the delivery is handled and nothing is left to happen, or the
\* handler's result is awaited and the one reply is handed over when it
\* settles, after which nothing is left of the message.  The handler is the
\* last function invoked for it.
C28_OneTerminalReply ==
    [][/\ \A e \in Engines, raw \in InboundRaws : \A a \in Contexts(e) :
              (/\ FromTransportRaw(e, raw, a)
               /\ IsRequestRaw(raw)
               /\ toTransport[e] # "null") =>
                  /\ \A i \in DOMAIN execLog' :
                         execLog'[i].fn = 0 => i = Len(execLog')
                  /\ \/ /\ NewlyAwaited = {}
                        /\ \E x \in NewlyHanded(e) :
                               /\ NewlyHanded(e) = {x}
                               /\ IsReply(x.raw) /\ x.raw.id = RawId(raw)
                     \/ /\ NewlyHanded(e) = {}
                        /\ \E p \in NewlyAwaited :
                               /\ NewlyAwaited = {p}
                               /\ p.eng = e /\ p.messageId = RawId(raw)
       /\ \A p \in promises : \A f \in BOOLEAN :
              (PromiseSettles(p, f) /\ toTransport[p.eng] # "null") =>
                  /\ promises' = promises \ {p}
                  /\ execLog' = execLog
                  /\ \E x \in NewlyHanded(p.eng) :
                         /\ NewlyHanded(p.eng) = {x}
                         /\ x.raw.id = p.messageId
                         /\ x.raw.type = IF f THEN Response ELSE ErrorResponse]_vars

(* ------------------------------- C29 ----------------------------------- *)
\* How often the last handleMessage invoked the handler.
HandlerRuns(log) == Cardinality({i \in DOMAIN log : log[i].fn = 0})

\* The method of e has a handler none of whose guards raises.
Served(e, method) ==
    dispatcher[e][method] # 0 /\ FirstFailing(handlers[dispatcher[e][method]].guards) = 0

\* C29: the delivery of a Request or Notification whose method is registered
\* and whose guards all pass invokes the handler exactly once, and for a
\* Notification nothing is handed to the transport, then or later.
C29_HandlerExactlyOnce ==
    [][/\ \A e \in Engines : \A entry \in wire[e] :
              (/\ Delivered(e, entry)
               /\ entry.raw.type \in {Request, Notification}
               /\ Served(e, entry.raw.method)) =>
                  /\ HandlerRuns(execLog') = 1
                  /\ entry.raw.type = Notification => EmitsNothing(e)
       /\ \A e \in Engines, raw \in InboundRaws : \A a \in Contexts(e) :
              (FromTransportRaw(e, raw, a) /\ Served(e, "add")) =>
                  /\ HandlerRuns(execLog') = 1
                  /\ ~IsRequestRaw(raw) => EmitsNothing(e)]_vars

(* ------------------------------- C30 ----------------------------------- *)
\* The slot: either callback is registered at any time, in the place of the
\* other or in the empty slot, while requests and notifications are sent and
\* answered, at once or later.
SlotNext ==
    \/ \E e \in Engines, cb \in Callbacks :
           toTransport[e] # cb /\ RegisterToTransportCallback(e, cb)
    \/ \E e \in Engines, fn \in {"returns", "async"} :
           Len(handlers) < MaxHandlers /\ RegisterHandler(e, "add", fn)
    \/ \E e \in Engines, ps \in ParamLists : \E a \in Contexts(e) :
           RequestCall(e, "add", ps, a)
    \/ \E e \in Engines, ps \in ParamLists : \E a \in Contexts(e) :
           Notify(e, "add", ps, a)
    \/ \E e \in Engines : \E entry \in wire[e], a \in Contexts(e) :
           FromTransport(e, entry, a)
    \/ \E p \in promises, f \in BOOLEAN : PromiseSettles(p, f)

SlotSpec == Init /\ [][SlotNext]_vars

\* Engine e acts in the step: request, notify, fromTransport, or the promise
\* of one of its asynchronous handlers settles.
Acts(e) ==
    \/ \E ps \in ParamLists, a \in Contexts(e) : RequestCall(e, "add", ps, a)
    \/ \E ps \in ParamLists, a \in Contexts(e) : Notify(e, "add", ps, a)
    \/ \E entry \in wire[e], a \in Contexts(e) : FromTransport(e, entry, a)
    \/ \E p \in promises, f \in BOOLEAN : p.eng = e /\ PromiseSettles(p, f)

\* The texts a step adds where the callbacks of set cbs put them.
Places(e, cbs) ==
    (IF "cb" \in cbs THEN {Peer(e)} ELSE {}) \cup (IF "cb2" \in cbs THEN {Elsewhere} ELSE {})
AddedAt(places) == UNION {wire'[d] \ wire[d] : d \in places}

\* C30: the transport callback is one slot.  registerToTransportCallback puts
\* its argument into the slot whatever the slot held; whatever an engine emits
\* (a request, a notification, a reply, the reply of an asynchronous handler
\* invoked earlier) goes to the callback that is in the slot at that moment
\* and to no other; with the slot empty nothing is emitted and the operation
\* goes through all the same (a request is left pending).
C30_OneReplaceableSlot ==
    [][/\ \A e \in Engines, cb \in Callbacks :
              RegisterToTransportCallback(e, cb) => toTransport'[e] = cb
       /\ \A e \in Engines :
              Acts(e) =>
                  /\ AddedAt(Places(e, Callbacks \ {toTransport[e]})) = {}
                  /\ \A ps \in ParamLists, a \in Contexts(e) :
                         RequestCall(e, "add", ps, a) =>
                             /\ calls'[Len(calls')].outcome = Pending
                             /\ \E q \in pendingRequests'[e] : q.call = Len(calls')
                             /\ Cardinality(AddedAt(Places(e, {toTransport[e]}))) =
                                    IF toTransport[e] = "null" THEN 0 ELSE 1]_vars

\* Engine 1 sent a request through the first callback, the callback was
\* replaced, and a Response of its asynchronous handler went to the second.
C30_Witness ==
    /\ toTransport[1] = "cb2"
    /\ \E y \in wire[Peer(1)] : y.raw.type = Request
    /\ \E x \in wire[Elsewhere] : x.raw.type = Response /\ x.appData = NoAppData
    /\ Len(handlers) = 1 /\ handlers[1].eng = 1 /\ handlers[1].fn = "async"

(* ------------------------------- C31 ----------------------------------- *)
\* C31: notify() hands exactly one Notification with its method and params to
\* the transport callback (none when no callback is registered) and leaves the
\* pending tables, the request-id counter, the sweep timers and the calls as
\* they are; an entry enters a pending table only in a step of request().
C31_NotifyFrame ==
    [][/\ \A e \in Engines, m \in Methods, ps \in DispatchParamLists :
          \A a \in Contexts(e) :
              Notify(e, m, ps, a) =>
                  /\ pendingRequests' = pendingRequests
                  /\ requestIdCounter' = requestIdCounter
                  /\ timeoutCheckInterval' = timeoutCheckInterval
                  /\ calls' = calls /\ promises' = promises
                  /\ \A d \in DOMAIN wire : d # Peer(e) => wire'[d] = wire[d]
                  /\ IF toTransport[e] = "null" THEN wire'[Peer(e)] = wire[Peer(e)]
                     ELSE \E x \in wire'[Peer(e)] :
                              /\ x \notin wire[Peer(e)]
                              /\ wire'[Peer(e)] = wire[Peer(e)] \cup {x}
                              /\ x.raw = [type |-> Notification, method |-> m, params |-> ps]
                              /\ x.appData = a
       /\ \A e \in Engines :
              pendingRequests'[e] \ pendingRequests[e] # {} =>
                  \E m \in Methods, ps \in DispatchParamLists : \E a \in Contexts(e) :
                      RequestCall(e, m, ps, a)]_vars

\* A notification was sent while a request was pending: it is on the wire and
\* the one pending entry is that of the request.
C31_Witness ==
    \E e \in Engines :
        /\ \E x \in wire[Peer(e)] : x.raw.type = Notification
        /\ Cardinality(pendingRequests[e]) = 1
        /\ Len(calls) = 1 /\ calls[1].eng = e /\ IsPending(1)

(* ------------------------------- C32 ----------------------------------- *)
\* The transport callback of src/test.ts: it calls the fromTransport of the
\* peer engine at once, inside callToTransport.
Loopback == "loop"

\* fromTransport of engine e for a Request of the peer, called from inside the
\* peer's callToTransport: what handleMessage does with it.
ServeInside(e, message, appData, for) ==
    IF WithAppData(e) THEN HandleMessageWithAppData(e, message, appData, for)
    ELSE HandleMessage(e, message, for)

\* A reply that engine e hands to its loopback callback reaches the reply
\* branch of the peer inside that call; with no callback it is dropped.
ReplyInside(e, base, out) ==
    IF out = << >> \/ toTransport[e] # Loopback THEN base
    ELSE ReplyOutcome(base, Stringify(out[1]), out[1].id)

\* A request() that calls the transport callback first and stores the pending
\* entry afterwards.
RequestSendsFirst(e, method, params, appData) ==
    /\ Len(calls) < MaxCalls
    /\ toTransport[e] \in {"null", Loopback}
    /\ \E peerData \in Contexts(Peer(e)) :
        LET id == GenerateRequestId(requestIdCounter)
            requestMessage == CreateRequest(id, method, params)
            call == Len(calls) + 1
            served == IF toTransport[e] = "null" THEN Outcome(Peer(e))
                      ELSE ServeInside(Peer(e), Stringify(requestMessage), peerData, call)
            back == ReplyInside(Peer(e), Outcome(e), served.out)
            table == MapSet(back.pending, [id |-> id, call |-> call, timestamp |-> now])
        IN  /\ requestIdCounter' = id
            /\ calls' = Append(back.calls, [eng |-> e, id |-> id, params |-> params,
                                            timestamp |-> now, outcome |-> Pending])
            /\ pendingRequests' = [pendingRequests EXCEPT ![e] = table]
            /\ timeoutCheckInterval' = [timeoutCheckInterval EXCEPT ![e] =
                   IF Cardinality(table) = 1 THEN StartTimeoutChecker(@) ELSE @]
            /\ promises' = served.promises
            /\ execLog' = served.exec
    /\ UNCHANGED <<now, requestTimeout, toTransport, dispatcher, handlers, wire,
                   budget, decoded>>

\* request(method, params[, appData]) with the loopback callback in the slot:
\* the pending entry is stored and the sweep started, then callToTransport
\* calls the peer's fromTransport, and the reply the peer sends while it
\* handles the Request comes back through the peer's loopback callback before
\* callToTransport returns.
RequestLoopback(e, method, params, appData) ==
    /\ Len(calls) < MaxCalls
    /\ toTransport[e] \in {"null", Loopback}
    /\ \E peerData \in Contexts(Peer(e)) :
        LET id == GenerateRequestId(requestIdCounter)
            requestMessage == CreateRequest(id, method, params)
            call == Len(calls) + 1
            table == MapSet(pendingRequests[e], [id |-> id, call |-> call, timestamp |-> now])
            stored == [Outcome(e) EXCEPT
                          !.pending = table,
                          !.calls = Append(calls, [eng |-> e, id |-> id, params |-> params,
                                                   timestamp |-> now, outcome |-> Pending])]
            served == IF toTransport[e] = "null" THEN Outcome(Peer(e))
                      ELSE ServeInside(Peer(e), Stringify(requestMessage), peerData, call)
            back == ReplyInside(Peer(e), stored, served.out)
        IN  /\ requestIdCounter' = id
            /\ calls' = back.calls
            /\ pendingRequests' = [pendingRequests EXCEPT ![e] = back.pending]
            /\ timeoutCheckInterval' = [timeoutCheckInterval EXCEPT ![e] =
                   IF Cardinality(table) = 1 THEN StartTimeoutChecker(@) ELSE @]
            /\ promises' = served.promises
            /\ execLog' = served.exec
    /\ UNCHANGED <<now, requestTimeout, toTransport, dispatcher, handlers, wire,
                   budget, decoded>>

\* The promise of an asynchronous handler settles on an engine whose callback
\* is the loopback: the reply reaches the peer's reply branch at once.
PromiseSettlesLoopback(p, fulfilled) ==
    /\ p \in promises
    /\ toTransport[p.eng] \in {"null", Loopback}
    /\ LET reply == IF fulfilled THEN CreateResponse(p.messageId, p.value)
                    ELSE CreateErrorResponse(p.messageId, APPLICATION_ERROR.code,
                             APPLICATION_ERROR.message, HandlerError.message)
           back == ReplyInside(p.eng, Outcome(Peer(p.eng)), <<reply>>)
       IN  /\ promises' = promises \ {p}
           /\ pendingRequests' = [pendingRequests EXCEPT ![Peer(p.eng)] = back.pending]
           /\ calls' = back.calls
    /\ UNCHANGED <<requestIdCounter, now, requestTimeout, toTransport, dispatcher,
                   handlers, timeoutCheckInterval, wire, execLog, budget, decoded>>

\* Two engines wired to each other by loopback callbacks, as in src/test.ts.
LoopNext ==
    \/ \E e \in Engines : toTransport[e] = "null" /\ RegisterToTransportCallback(e, Loopback)
    \/ \E e \in Engines, fn \in HandlerFns :
           Len(handlers) < MaxHandlers /\ RegisterHandler(e, "add", fn)
    \/ \E h \in 1..MaxHandlers, f \in BOOLEAN : AddGuard(h, ParamGuard, f)
    \/ \E e \in Engines, m \in Methods, ps \in ParamLists : \E a \in Contexts(e) :
           RequestLoopback(e, m, ps, a)
    \/ \E p \in promises, f \in BOOLEAN : PromiseSettlesLoopback(p, f)

LoopSpec == Init /\ [][LoopNext]_vars


\* C32: request() stores its pending entry (and starts the sweep) before it
\* calls the transport callback: when the callback delivers at once and the
\* peer's reply comes back inside it, the reply finds the entry and settles the
\* call (with the handler's result, or with the error of the peer: method not
\* found, guard error, application error) instead of being ignored; when the
\* peer's handler answers later, the entry is there, the sweep runs, and the
\* later reply settles the call.
C32_EntryBeforeSend ==
    [][/\ \A e \in Engines, m \in Methods, ps \in ParamLists : \A a \in Contexts(e) :
              (/\ RequestLoopback(e, m, ps, a)
               /\ toTransport[e] = Loopback /\ toTransport[Peer(e)] = Loopback) =>
                  LET c == Len(calls')
                  IN  IF promises' = promises
                      THEN /\ calls'[c].outcome.kind \in {"resolved", "rejected"}
                           /\ calls'[c].outcome.kind = "rejected" =>
                                  /\ calls'[c].outcome.code \in {1002, 1006, 1007}
                                  /\ calls'[c].outcome.id = calls'[c].id
                           /\ \A q \in pendingRequests'[e] : q.call # c
                      ELSE /\ calls'[c].outcome = Pending
                           /\ \E q \in pendingRequests'[e] : q.call = c
                           /\ timeoutCheckInterval'[e] # NoTimer
       /\ \A p \in promises : \A f \in BOOLEAN :
              (/\ PromiseSettlesLoopback(p, f)
               /\ toTransport[p.eng] = Loopback
               /\ \E q \in pendingRequests[Peer(p.eng)] : q.call = p.for) =>
                  /\ calls'[p.for].outcome.kind = IF f THEN "resolved" ELSE "rejected"
                  /\ \A q \in pendingRequests'[Peer(p.eng)] : q.call # p.for]_vars

\* A call made through the loopback was resolved inside request(): no text
\* was ever on the wire.
C32_Witness ==
    /\ \A d \in DOMAIN wire : wire[d] = {}
    /\ \E c \in DOMAIN calls :
           /\ calls[c].outcome.kind = "resolved"
           /\ toTransport[calls[c].eng] = Loopback
           /\ \A q \in pendingRequests[calls[c].eng] : q.call # c

(* ------------------------------- C33 ----------------------------------- *)
\* An engine with pending entries has its sweep timer running.
TimerCoversTable ==
    \A e \in Engines : pendingRequests[e] # {} => timeoutCheckInterval[e] # NoTimer

\* C33: after every operation of an engine (request, fromTransport, sweep
\* tick, clean) a non-empty pending table has a running sweep timer, and an
\* engine never has two timers: while its timer runs no operation starts
\* another one, the running timer is only rescheduled or stopped by its own
\* tick and stopped by clean.
C33_OneTimerWhilePending ==
    /\ TimerCoversTable
    /\ [][/\ TimerCoversTable'
          /\ \A e \in Engines :
                 (/\ timeoutCheckInterval[e] # NoTimer
                  /\ timeoutCheckInterval'[e] # timeoutCheckInterval[e]) =>
                     SweepTick(e) \/ Clean(e, CleanReason)]_vars

\* A second request was made while the timer started by the first was
\* running, half an interval later: both are pending under the one timer.
C33_Witness ==
    \E e \in Engines :
        /\ Cardinality(pendingRequests[e]) = 2
        /\ \E p, q \in pendingRequests[e] : p.timestamp < q.timestamp
        /\ timeoutCheckInterval[e] # NoTimer
        /\ \A q \in pendingRequests[e] : timeoutCheckInterval[e] > q.timestamp

(* ------------------------------- C34 ----------------------------------- *)
\* Calls of generateRequestId by other code that bring the counter to its
\* last two values: 2^32 - 1 and 2^32 - 2 calls.
IdBursts == {<<Limb - 1, Limb - 1>>, <<Limb - 1, Limb - 2>>}

\* Ids at the end of their range, and id -1 replies: requests before and
\* after the counter was driven to 2^32 - 1 or 2^32 - 2, texts that are no
\* JSON answered by the peer with an ErrorResponse of id -1, and every text
\* on the wire delivered.
IdNext ==
    \/ \E e \in Engines : toTransport[e] = "null" /\ RegisterToTransportCallback(e, "cb")
    \/ \E e \in Engines, ps \in ParamLists : \E a \in Contexts(e) :
           RequestCall(e, "add", ps, a)
    \/ \E n \in IdBursts : CreateRequestElsewhere(n)
    \/ \E e \in Engines : \E a \in Contexts(e) : FromTransportRaw(e, NotJson, a)
    \/ \E e \in Engines : \E entry \in wire[e], a \in Contexts(e) :
           FromTransport(e, entry, a)

IdSpec == Init /\ [][IdNext]_vars

\* A number of 0..2^32-1, as its two limbs.
IsUint32(id) == id[1] \in 0..(Limb - 1) /\ id[2] \in 0..(Limb - 1)

\* C34: the ids of the request-id counter are numbers of 0..2^32-1 and never
\* -1: the first id drawn is 1 and the id drawn after 2^32-1 is 0.  So an
\* ErrorResponse with id -1, as a peer sends it for a text it cannot decode,
\* matches no pending entry: its delivery leaves every table and every call
\* as it is.
C34_IdsNeverMinusOne ==
    /\ requestIdCounter = <<0, 0>>
    /\ [][/\ IsUint32(requestIdCounter') /\ requestIdCounter' # MinusOne
          /\ \A c \in DOMAIN calls' : IsUint32(calls'[c].id)
          /\ \A e \in Engines : \A p \in pendingRequests'[e] : IsUint32(p.id)
          /\ Len(calls') > Len(calls) =>
                 /\ calls'[Len(calls')].id = requestIdCounter'
                 /\ requestIdCounter = <<0, 0>> => requestIdCounter' = <<0, 1>>
                 /\ requestIdCounter = <<Limb - 1, Limb - 1>> => requestIdCounter' = <<0, 0>>
          /\ \A e \in Engines : \A entry \in wire[e] :
                 (/\ Delivered(e, entry)
                  /\ entry.raw.type = ErrorResponse
                  /\ entry.raw.id = MinusOne) =>
                     /\ pendingRequests' = pendingRequests
                     /\ calls' = calls]_vars

\* The counter was driven to 2^32-1, the request made then has id 0 and is
\* pending, and an ErrorResponse with id -1 is on its engine's wire.
C34_Witness ==
    \E c \in DOMAIN calls :
        /\ calls[c].id = <<0, 0>> /\ IsPending(c)
        /\ budget.bursts = 1
        /\ \E entry \in wire[calls[c].eng] :
               entry.raw.type = ErrorResponse /\ entry.raw.id = MinusOne

(* ------------------------------- C35 ----------------------------------- *)
\* Engines cleaned in the middle of their work: a request served by a handler
\* that returns or by an asynchronous one, texts from elsewhere (a Request and
\* a text that is no JSON), promises that settle at any time, clean at any
\* time, and a callback registered again afterwards.
AfterCleanNext ==
    \/ \E e \in Engines : toTransport[e] = "null" /\ RegisterToTransportCallback(e, "cb")
    \/ \E e \in Engines, fn \in {"returns", "async"} :
           Len(handlers) < MaxHandlers /\ RegisterHandler(e, "add", fn)
    \/ \E e \in Engines, ps \in ParamLists : \E a \in Contexts(e) :
           Len(calls) < MaxDispatchCalls /\ RequestCall(e, "add", ps, a)
    \/ \E e \in Engines : \E entry \in wire[e], a \in Contexts(e) :
           FromTransport(e, entry, a)
    \/ \E e \in Engines, raw \in {NotJson, RequestRaw(ArrayParams)} : \E a \in Contexts(e) :
           FromTransportRaw(e, raw, a)
    \/ \E p \in promises, f \in BOOLEAN : PromiseSettles(p, f)
    \/ \E e \in Engines : budget.cleans < MaxSpecCleans /\ Clean(e, CleanReason)

AfterCleanSpec == Init /\ [][AfterCleanNext]_vars

\* C35: clean() empties the callback slot and hands nothing to the callback,
\* and while the slot of an engine is empty (from clean() to the next
\* registration) no step hands a message of that engine to any transport
\* callback: not the settling of a promise that a handler returned before
\* clean(), not the delivery of a message or of a text that does not decode.
C35_SilentAfterClean ==
    [][\A e \in Engines :
          /\ Clean(e, CleanReason) => toTransport'[e] = "null" /\ wire' = wire
          /\ toTransport[e] = "null" =>
                /\ NewlyHanded(e) = {}
                /\ \A entry \in wire'[Elsewhere] \ wire[Elsewhere] :
                       entry.for \notin {q.for : q \in {p \in promises : p.eng = e}}
                /\ \A p \in promises, f \in BOOLEAN :
                       (p.eng = e /\ PromiseSettles(p, f)) => wire' = wire
                /\ \A entry \in wire[e] : \A a \in Contexts(e) :
                       FromTransport(e, entry, a) => wire' = [wire EXCEPT ![e] = @ \ {entry}]
                /\ \A raw \in {NotJson, RequestRaw(ArrayParams)} : \A a \in Contexts(e) :
                       FromTransportRaw(e, raw, a) => wire' = wire]_vars

\* The peer had its callback registered (its id -1 reply to a text that is no
\* JSON is on the wire), then its asynchronous handler was invoked for the
\* request of a call, then the peer was cleaned (its dispatcher is empty),
\* and the promise settled afterwards: the call is still pending and no wire
\* holds a reply for it.
C35_Witness ==
    \E c \in DOMAIN calls :
        LET e == Peer(calls[c].eng)
        IN  /\ IsPending(c) /\ InTable(c)
            /\ toTransport[e] = "null"
            /\ dispatcher[e]["add"] = 0
            /\ \E h \in DOMAIN handlers : handlers[h].eng = e /\ handlers[h].fn = "async"
            /\ execLog # << >>
            /\ promises = {}
            /\ \E entry \in wire[Peer(e)] :
                   entry.raw.type = ErrorResponse /\ entry.raw.id = MinusOne
            /\ \A w \in Engines \cup {Elsewhere} : \A entry \in wire[w] : entry.for # c

(* ------------------------------- C36 ----------------------------------- *)
\* Call c is unsettled on an engine whose callback slot is empty: it was made
\* while the slot was empty, since clean(), the only way to empty the slot,
\* rejects every call that is unsettled.
Unsent(c) == c \in DOMAIN calls /\ IsPending(c) /\ toTransport[calls[c].eng] = "null"

TimedOut(c) ==
    /\ c \in DOMAIN calls
    /\ calls[c].outcome.kind = "rejected"
    /\ calls[c].outcome.code = REQUEST_TIMEOUT.code

\* clean() rejected the call.
Cleaned(c) ==
    /\ c \in DOMAIN calls
    /\ calls[c].outcome.kind = "rejected"
    /\ calls[c].outcome.code = INTERNAL_ERROR.code

\* C36: a request() made while the callback slot is empty stores a pending
\* entry for an unsettled call, has the sweep timer running afterwards and
\* hands nothing to any transport; the call is eventually rejected with
\* REQUEST_TIMEOUT (unless clean() rejects it first).
C36_UnsentRequestTimesOut ==
    /\ [][\A e \in Engines, m \in Methods, ps \in ParamLists : \A a \in Contexts(e) :
             (toTransport[e] = "null" /\ RequestCall(e, m, ps, a)) =>
                 /\ wire' = wire
                 /\ timeoutCheckInterval'[e] # NoTimer
                 /\ calls'[Len(calls')].outcome = Pending
                 /\ \E p \in pendingRequests'[e] :
                        p.call = Len(calls') /\ p.timestamp = now]_vars
    /\ \A c \in 1..MaxCalls : Unsent(c) ~> (TimedOut(c) \/ Cleaned(c))

(* ------------------------------- C37 ----------------------------------- *)
\* The age of a pending entry of engine e at the present time is at least
\* requestTimeout.
Due(e, p) == now - p.timestamp >= requestTimeout[e]

\* C37: one sweep tick of an engine removes every entry of its table whose
\* age is at least requestTimeout and rejects the call of each with
\* REQUEST_TIMEOUT, and leaves every younger entry in the table as it is, its
\* call unsettled; it adds no entry and touches no other call and no other
\* table.
C37_SweepEvictsAllDue ==
    [][\A e \in Engines : SweepTick(e) =>
          /\ \A p \in pendingRequests[e] :
                IF Due(e, p)
                THEN /\ \A q \in pendingRequests'[e] : q.id # p.id
                     /\ calls'[p.call].outcome.kind = "rejected"
                     /\ calls'[p.call].outcome.code = REQUEST_TIMEOUT.code
                     /\ calls'[p.call].outcome.message = REQUEST_TIMEOUT.message
                ELSE /\ p \in pendingRequests'[e]
                     /\ calls'[p.call] = calls[p.call]
                     /\ calls'[p.call].outcome = Pending
          /\ pendingRequests'[e] \subseteq pendingRequests[e]
          /\ pendingRequests'[Peer(e)] = pendingRequests[Peer(e)]
          /\ DOMAIN calls' = DOMAIN calls
          /\ \A c \in DOMAIN calls :
                (\A p \in pendingRequests[e] : p.call # c) => calls'[c] = calls[c]]_vars

\* Two calls of one engine, made at 0 and at TimeStep, are both rejected with
\* REQUEST_TIMEOUT at the time the younger one reaches the age requestTimeout:
\* the timer started at 0, no tick before this one found the older call due,
\* and this tick evicted both.
C37_Witness ==
    \E c, d \in DOMAIN calls :
        /\ calls[c].eng = calls[d].eng
        /\ calls[c].timestamp = 0 /\ calls[d].timestamp = TimeStep
        /\ TimedOut(c) /\ TimedOut(d)
        /\ now = TimeStep + requestTimeout[calls[d].eng]
        /\ now < 2 * TIMEOUT_CHECK_INTERVAL_MS + TimeStep
        /\ requestTimeout[calls[c].eng] > TIMEOUT_CHECK_INTERVAL_MS

(* ------------------------------- C38 ----------------------------------- *)
\* Texts from elsewhere: a valid Response, a valid ErrorResponse, a text that
\* is no JSON and an ErrorResponse whose code is a string.
ExchangeRaws ==
    {JsonStringify(Elements(CreateResponse(<<0, 1>>, "q"))),
     JsonStringify(Elements(CreateErrorResponse(<<0, 1>>, APPLICATION_ERROR.code,
                                                APPLICATION_ERROR.message, "bad"))),
     NotJson,
     Text(JArray(<<JNumber(ErrorResponse), JNumber(1),
                   JObject([code |-> JString("1002"), message |-> JString("m")])>>))}

\* Texts from elsewhere handed to the engines of an exchange.
MaxExchangeRaws == 1

\* Exchanges of every kind between the two engines: a request and a
\* notification for a method with a handler of any kind (and a guard that
\* fails) or with none, texts from elsewhere that are replies or no message
\* at all, deliveries in any order and promises that settle either way.
ExchangeNext ==
    \/ \E e \in Engines : toTransport[e] = "null" /\ RegisterToTransportCallback(e, "cb")
    \/ \E e \in Engines, fn \in HandlerFns :
           Len(handlers) < MaxHandlers /\ RegisterHandler(e, "add", fn)
    \/ \E h \in 1..MaxHandlers : AddGuard(h, ParamGuard, TRUE)
    \/ \E e \in Engines, ps \in ParamLists : \E a \in Contexts(e) :
           Len(calls) < MaxDispatchCalls /\ RequestCall(e, "add", ps, a)
    \/ \E e \in Engines, ps \in ParamLists : \E a \in Contexts(e) :
           Notify(e, "add", ps, a)
    \/ \E e \in Engines, raw \in ExchangeRaws : \E a \in Contexts(e) :
           budget.raws < MaxExchangeRaws /\ FromTransportRaw(e, raw, a)
    \/ \E e \in Engines : \E entry \in wire[e], a \in Contexts(e) :
           FromTransport(e, entry, a)
    \/ \E p \in promises, f \in BOOLEAN : PromiseSettles(p, f)

ExchangeSpec == Init /\ [][ExchangeNext]_vars

\* What is left of the exchanges under way: a Request or Notification on the
\* wire can still cause a promise or a reply, a promise can still cause a
\* reply, a reply causes nothing.
Weight(entry) == IF IsReply(entry.raw) THEN 1 ELSE 3

RECURSIVE SumWeights(_)
SumWeights(entries) ==
    IF entries = {} THEN 0
    ELSE LET x == CHOOSE x \in entries : TRUE
         IN  Weight(x) + SumWeights(entries \ {x})

InFlight ==
    SumWeights(wire[1]) + SumWeights(wire[2]) + 2 * Cardinality(promises)

\* The text is a valid Response or ErrorResponse.
IsReplyRaw(raw) ==
    /\ ParseMessage(raw).kind = "message"
    /\ IsReply(Named(ParseMessage(raw).message))

\* C38: the delivery of a valid Response or ErrorResponse invokes no guard
\* and no handler, starts no wait for a promise and hands nothing to any
\* transport.  With the engines back to back, a request(), a notify() or a
\* text from elsewhere adds at most one message (or one promise) to what is
\* under way, and every delivery between the engines and every settling of a
\* promise leaves strictly less under way than before: every exchange ends
\* after finitely many wire messages.
C38_RepliesEndTheExchange ==
    [][/\ \A e \in Engines : \A entry \in wire[e] :
            (Delivered(e, entry) /\ IsReply(entry.raw)) =>
                /\ execLog' = << >>
                /\ promises' = promises
                /\ wire'[Peer(e)] = wire[Peer(e)]
                /\ wire'[Elsewhere] = wire[Elsewhere]
       /\ \A e \in Engines, raw \in ExchangeRaws : \A a \in Contexts(e) :
            (FromTransportRaw(e, raw, a) /\ IsReplyRaw(raw)) =>
                /\ execLog' = << >>
                /\ promises' = promises
                /\ wire' = wire
       /\ \A e \in Engines : \A entry \in wire[e], a \in Contexts(e) :
            FromTransport(e, entry, a) => InFlight' < InFlight
       /\ \A p \in promises, f \in BOOLEAN :
            PromiseSettles(p, f) => InFlight' < InFlight
       /\ InFlight' <= InFlight + 3]_vars

\* A call was rejected by the METHOD_NOT_FOUND ErrorResponse of the peer, a
\* text from elsewhere has been handled, and nothing is under way any more.
C38_Witness ==
    /\ \E c \in DOMAIN calls :
           /\ calls[c].outcome.kind = "rejected"
           /\ calls[c].outcome.code = METHOD_NOT_FOUND.code
    /\ budget.raws > 0
    /\ toTransport = [e \in Engines |-> "cb"]
    /\ InFlight = 0

(* ------------------------------- C39 ----------------------------------- *)
\* The two engines set up alike: each gets one handler for "add" and
\* parameter-only guards, and is handed the inbound calls of every shape that
\* passes validation.
TwinNext ==
    \/ \E e \in Engines : toTransport[e] = "null" /\ RegisterToTransportCallback(e, "cb")
    \/ \E e \in Engines, fn \in HandlerFns :
           dispatcher[e]["add"] = 0 /\ RegisterHandler(e, "add", fn)
    \/ \E h \in DOMAIN handlers, f \in BOOLEAN : AddGuard(h, ParamGuard, f)
    \/ \E e \in Engines, raw \in InboundRaws : \E a \in Contexts(e) :
           budget.raws < MaxExchangeRaws /\ FromTransportRaw(e, raw, a)
    \/ \E p \in promises, f \in BOOLEAN : PromiseSettles(p, f)

TwinSpec == Init /\ [][TwinNext]_vars

\* Both engines have the same handler function with the same guards for "add".
Twins ==
    /\ dispatcher[1]["add"] # 0 /\ dispatcher[2]["add"] # 0
    /\ handlers[dispatcher[1]["add"]].fn = handlers[dispatcher[2]["add"]].fn
    /\ handlers[dispatcher[1]["add"]].guards = handlers[dispatcher[2]["add"]].guards

\* The messages two handleMessage calls pass to callToTransport are the same.
\* A handler that is given no parameters has the context as its first argument
\* in the with-context engine: the result it returns is left out of the
\* comparison.
SameOut(o1, o2, message) ==
    IF /\ message.params = << >> /\ o1 # << >> /\ o2 # << >>
       /\ o1[1].type = Response /\ o2[1].type = Response
    THEN o1[1].id = o2[1].id
    ELSE o1 = o2

\* What the two handleMessage do with the same message agrees: the same
\* functions are invoked in the same order, the same message is passed to
\* callToTransport, both wait for a promise or neither does, and both leave
\* the pending table and the calls as they are.
AgreeOn(message, a) ==
    LET k == HandleMessage(1, message, 0)
        w == HandleMessageWithAppData(2, message, a, 0)
    IN  /\ Invoked(k.exec) = Invoked(w.exec)
        /\ SameOut(k.out, w.out, message)
        /\ (k.promises = promises) <=> (w.promises = promises)
        /\ k.pending = pendingRequests[1] /\ w.pending = pendingRequests[2]
        /\ k.calls = calls /\ w.calls = calls

\* C39: with the same handler and the same parameter-only guards registered,
\* KissRpc and KissRpcWithAppData do the same with every valid inbound Request
\* and Notification: they invoke the same guards and the handler for the same
\* messages, emit the same raw message and leave the same pending table.
C39_EnginesAgree ==
    Twins => \A raw \in InboundRaws : \A a \in AppDatas :
                 AgreeOn(Named(ParseMessage(raw).message), a)
====
